---- MODULE Spec2Model ----
(***************************************************************************)
(* cx861xx_flash v1.1 (src/cx861xx_flash.c, lines 449-1061): the USB boot  *)
(* loader flash utility for Conexant CX861xx / CX82xxx.                    *)
(*                                                                         *)
(* The host program is modelled statement group by statement group; the    *)
(* boot loader behind the bulk endpoint and the NOR flash chip behind it   *)
(* are the environment (the variable chip).  Every packet that crosses the *)
(* endpoint is kept in the variable bus.                                   *)
(***************************************************************************)
EXTENDS Integers, Sequences, FiniteSets, TLC

VARIABLES
    pc,          \* position of the host program
    unit,        \* what is being run: "main", or one driver call on its own
    usb,         \* [product, claim]: the attached device, libusb_claim_interface's result
    args,        \* [argc, mode]: the command line
    flash_base,  \* u32 flash_base (global)
    cx861xx,     \* bool cx861xx (main)
    flash,       \* struct flash_chip *flash: 0 = NULL, k = &supported_chips[k-1]
    file,        \* contents of FILE, a sequence of bytes
    buf,         \* u8 *buf, the image buffer
    loop,        \* [i, j, addr]: main's block loop
    call,        \* [fn, addr, data, size, slow, i, status, cont, mark]: the running
                 \* driver call; mark is the length of bus when it was made
    ret,         \* value returned by the last driver call (main discards it)
    exitcode,    \* process exit status, -1 while running
    bus,         \* every packet sent or received on the bulk endpoint, in order
    chip,        \* the boot loader's memory map and the flash chip behind it
    hist         \* [calls, failed, ids, idbus, written, start]: the driver calls
                 \* made, the first driver that returned false, the IDs
                 \* flash_identify read and the length of bus when it returned,
                 \* the image of an earlier write run and the length of bus
                 \* when it ended

vars == <<pc, unit, usb, args, flash_base, cx861xx, flash, file, buf, loop,
          call, ret, exitcode, bus, chip, hist>>

----------------------------------------------------------------------------
(* Bounds of the model *)

\* blocks kept of each region of a block table
MaxCount == 2
\* 16-bit words kept of each block
MaxBlockWords == 3
\* period, in words, of the image patterns written
ImagePeriod == 2
\* status reads or flash operations that may misbehave in one run
MaxOdd == 1
\* blocks kept of each region when a write run is followed by a read run:
\* enough of them for a flash of more than one packet
MaxCountRoundTrip == 8

\* status reads that may find an operation still running, in one driver call
MaxBusy == 2

\* packets of data, besides one byte, that one memory access may take
MaxChunks == 2

\* bytes an answer packet may carry beyond what it should
MaxExtra == 2

\* bulk transfers of one driver call that are followed
MaxCallLog == 24

\* the bulk transfer of a call that fails is one of the first MaxLose
MaxLose == 6

----------------------------------------------------------------------------
(* Integer helpers *)

Min(a, b) == IF a < b THEN a ELSE b

U8(x) == x % 256

U16(x) == x % 65536

\* a > b on u32, where a value below 0 stands for that value + 2^32: what
\* a u32 holds after it went below 0
Above(a, b) == a < 0 \/ a > b

RECURSIVE BitAnd(_, _)
\* the C operator & on non-negative integers
BitAnd(x, y) ==
    IF x = 0 \/ y = 0 THEN 0
    ELSE (x % 2) * (y % 2) + 2 * BitAnd(x \div 2, y \div 2)

\* a u16 as it lies in memory on the little-endian host, and back
WordBytes(w) == <<w % 256, w \div 256>>

BytesWord(b, k) == b[k] + 256 * b[k + 1]

RECURSIVE WordsBytes(_)
WordsBytes(ws) ==
    IF ws = <<>> THEN <<>> ELSE WordBytes(ws[1]) \o WordsBytes(Tail(ws))

\* (u16 *)data, i.e. data[0], data[1], ... read from a byte buffer
BytesWords(b) == [k \in 1..(Len(b) \div 2) |-> BytesWord(b, 2 * k - 1)]

----------------------------------------------------------------------------
(* Program constants *)

CX861XX_BOOT_PROD == 51964  \* 0xcafc
CX82XXX_BOOT_PROD == 51965  \* 0xcafd
CX861XX_IO_BASE == 6291456  \* 0x00600000
CX861XX_FLASH_ENABLE == CX861XX_IO_BASE + 4
\* flash_base = cx861xx ? 0x04000000 : 0x0400000
CX861XX_FLASH_BASE == 67108864  \* 0x04000000
CX82XXX_FLASH_BASE == 4194304  \* 0x0400000

FW_READ_MEM == 2
FW_WRITE_MEM == 3
MA_BYTE == 0
MA_WORD == 1
\* sizeof(packet.data)
PacketDataSize == 56

FLASH_CMD_ID == 144  \* 0x90

INTEL_CMD_READ == 255  \* 0xff
INTEL_CMD_READSTATUS == 112  \* 0x70
INTEL_CMD_CLEARSTATUS == 80  \* 0x50
INTEL_CMD_PROGRAM == 64  \* 0x40
INTEL_CMD_ERASE == 32  \* 0x20
INTEL_CMD_ERASECONFIRM == 208  \* 0xd0
INTEL_CMD_LOCKMODE == 96  \* 0x60
INTEL_CMD_LOCK == 1  \* 0x01
INTEL_CMD_UNLOCK == 208  \* 0xd0

\* 1 << 7 ... 1 << 1
INTEL_ST_READY == 128
INTEL_ST_ERASESUSPEND == 64
INTEL_ST_ERASEERROR == 32
INTEL_ST_PROGRAMERROR == 16
INTEL_ST_VPPERROR == 8
INTEL_ST_PROGRAMSUSPEND == 4
INTEL_ST_LOCKED == 2
INTEL_ST_ERROR_MASK == 90  \* 0x5a

AMD_CMD_RESET == 240  \* 0xf0
AMD_CMD_PROGRAM == 160  \* 0xa0
AMD_CMD_ERASE_PREPARE == 128  \* 0x80
AMD_CMD_ERASE_SECTOR == 48  \* 0x30
AMD_CMD_UNLOCK_BYPASS == 32  \* 0x20
AMD_CMD_BYPASS_RESET1 == 144  \* 0x90
AMD_CMD_BYPASS_RESET2 == 0  \* 0x00

\* 1 << 7, 1 << 5
AMD_ST_DATAPOLL == 128
AMD_ST_TIMEOUT == 32

\* the first two cycles of cx_flash_cmd
UNLOCK_ADDR1 == 2730  \* 0xaaa
UNLOCK_ADDR2 == 1364  \* 0x554
UNLOCK_DATA1 == 170  \* 0xaa
UNLOCK_DATA2 == 85  \* 0x55

\* a word program_block does not program ("don't program FFFF words")
ERASED == 65535  \* 0xffff

----------------------------------------------------------------------------
(* struct flash_chip supported_chips[] *)

\* the { .count = 0 } entry that ends a block table
BlockEnd == [count |-> 0, size |-> 0]

\* a table that counts all 32 64 KiB sectors of the 29LV160, the split first
\* one too
MX29LV160B_blocks32 ==
    << [count |-> 1, size |-> 16384],
       [count |-> 2, size |-> 8192],
       [count |-> 1, size |-> 32768],
       [count |-> 32, size |-> 65536],
       BlockEnd >>

\* .blocks of the MXIC MX29LV160B
MX29LV160B_blocks ==
    << [count |-> 1, size |-> 16384],
       [count |-> 2, size |-> 8192],
       [count |-> 1, size |-> 32768],
       [count |-> 31, size |-> 65536],
       BlockEnd >>

\* the table as written in the source; the { .mfg = 0 } entry ends it
supported_chips == <<
    [mfg |-> \H0089, dev |-> \H88c5, name |-> "Intel 28F320C3B",
     size |-> 4 * 1024 * 1024,
     blocks |-> << [count |-> 8, size |-> 8192],
                   [count |-> 63, size |-> 65536],
                   BlockEnd >>,
     set_block_lock |-> "intel_set_block_lock",
     erase_block |-> "intel_erase_block",
     program_block |-> "intel_program_block"],
    [mfg |-> \H00c2, dev |-> \H2249, name |-> "MXIC MX29LV160B",
     size |-> 2 * 1024 * 1024,
     blocks |-> MX29LV160B_blocks,
     set_block_lock |-> "NULL",
     erase_block |-> "amd_erase_block",
     program_block |-> "amd_program_block"],
    [mfg |-> 0] >>

RECURSIVE BlockSum(_)
\* sum of count * size over a block table, up to its end marker
BlockSum(blocks) ==
    IF blocks = <<>> \/ blocks[1].count = 0 THEN 0
    ELSE blocks[1].count * blocks[1].size + BlockSum(Tail(blocks))

\* the smallest erase block of the catalog: one word of the model
MinBlockSize == 8192

\* the blocks kept of each region in this kind of run
BlocksKept == IF unit = "roundtrip" THEN MaxCountRoundTrip ELSE MaxCount

\* A block table cut down to the bounds: at most BlocksKept blocks of each
\* region, each block size / MinBlockSize words long, at most MaxBlockWords.
ScaledBlocks(blocks) ==
    [k \in 1..Len(blocks) |->
        IF blocks[k].count = 0 THEN blocks[k]
        ELSE [count |-> Min(blocks[k].count, BlocksKept),
              size |-> 2 * Min(blocks[k].size \div MinBlockSize, MaxBlockWords)]]

\* flash->blocks and flash->size as the run sees them.  The run is checked on
\* the cut-down table; its declared size is cut down with it.
flash_blocks(f) == ScaledBlocks(supported_chips[f].blocks)

flash_size(f) == BlockSum(flash_blocks(f))

RECURSIVE BlockStarts(_, _)
\* the start offsets and sizes of all blocks of a table, in address order
BlockStarts(blocks, addr) ==
    IF blocks = <<>> \/ blocks[1].count = 0 THEN <<>>
    ELSE <<[addr |-> addr, size |-> blocks[1].size]>> \o
         BlockStarts(IF blocks[1].count = 1 THEN Tail(blocks)
                     ELSE <<[blocks[1] EXCEPT !.count = @ - 1]>> \o Tail(blocks),
                     addr + blocks[1].size)

----------------------------------------------------------------------------
(* The flash chip, as the command and status definitions of the source     *)
(* describe it.  chip.arm is what the next erase or program will do (0: it *)
(* succeeds, else the error it ends with); chip.rd is what the next status *)
(* read finds ("final": the operation is over, "busy": it is not).         *)

BitOr(x, y) == x + y - BitAnd(x, y)

\* the block holding flash offset off, <<>> if none
BlockAt(c, off) ==
    SelectSeq(c.geom, LAMBDA b : b.addr <= off /\ off < b.addr + b.size)

InMem(c, off) == off \div 2 < Len(c.mem)

\* an erase or program has ended with the error bits given (0: none) and
\* the array as given: what the chip keeps of it
Finish(c, bits, mem) ==
    [c EXCEPT !.pend = "none", !.inop = TRUE, !.arm = 0,
              !.mem = mem,
              !.sr = BitOr(@, bits),
              !.stuck = (c.kind = "amd" /\ bits # 0),
              !.odd = IF c.arm # 0 THEN @ - 1 ELSE @,
              !.mode = IF c.kind = "intel" THEN "status" ELSE @]

\* The second cycle of a program: the word at off takes the value d.  A
\* program only clears bits; an AMD part that cannot reach d times out.
ChipProgram(c, off, d) ==
    LET blk == BlockAt(c, off)
        locked == blk # <<>> /\ blk[1].addr \in c.locked
        old == IF InMem(c, off) THEN c.mem[off \div 2 + 1] ELSE ERASED
        bits == IF locked THEN INTEL_ST_PROGRAMERROR + INTEL_ST_LOCKED
                ELSE IF c.arm # 0 THEN c.arm
                ELSE IF c.kind = "amd" /\ BitAnd(old, d) # d THEN AMD_ST_TIMEOUT
                ELSE 0
        mem == IF InMem(c, off) /\ ~locked /\ c.arm = 0
               THEN [c.mem EXCEPT ![off \div 2 + 1] = BitAnd(old, d)] ELSE c.mem
    IN  [Finish(c, bits, mem) EXCEPT
            !.dq = AMD_ST_DATAPOLL - BitAnd(d, AMD_ST_DATAPOLL), !.at = off]

\* the confirm cycle of an erase: the block holding off reads all ones
ChipErase(c, off) ==
    LET blk == BlockAt(c, off)
        locked == blk # <<>> /\ blk[1].addr \in c.locked
        bits == IF locked THEN INTEL_ST_ERASEERROR + INTEL_ST_LOCKED ELSE c.arm
        mem == IF blk = <<>> \/ bits # 0 THEN c.mem
               ELSE [k \in 1..Len(c.mem) |->
                        IF 2 * (k - 1) >= blk[1].addr
                           /\ 2 * (k - 1) < blk[1].addr + blk[1].size
                        THEN ERASED ELSE c.mem[k]]
    IN  [Finish(c, bits, mem) EXCEPT !.dq = 0, !.at = off]

\* one 16-bit write cycle, Intel command set
IntelWrite(c, off, d) ==
    CASE c.pend = "program" -> ChipProgram(c, off, d)
      [] c.pend = "erase" ->
            IF d = INTEL_CMD_ERASECONFIRM THEN ChipErase(c, off)
            ELSE [c EXCEPT !.pend = "none", !.mode = "status",
                    !.sr = BitOr(@, INTEL_ST_ERASEERROR + INTEL_ST_PROGRAMERROR)]
      [] c.pend = "lock" ->
            LET blk == BlockAt(c, off)
            IN  IF blk = <<>> THEN [c EXCEPT !.pend = "none"]
                ELSE IF d = INTEL_CMD_UNLOCK
                THEN [c EXCEPT !.pend = "none", !.locked = @ \ {blk[1].addr}]
                ELSE IF d = INTEL_CMD_LOCK
                THEN [c EXCEPT !.pend = "none", !.locked = @ \cup {blk[1].addr}]
                ELSE [c EXCEPT !.pend = "none"]
      [] OTHER ->
            CASE d = INTEL_CMD_READ -> [c EXCEPT !.mode = "array"]
              [] d = INTEL_CMD_READSTATUS -> [c EXCEPT !.mode = "status"]
              [] d = INTEL_CMD_CLEARSTATUS -> [c EXCEPT !.sr = 0]
              [] d = FLASH_CMD_ID -> [c EXCEPT !.mode = "id"]
              [] d = INTEL_CMD_PROGRAM -> [c EXCEPT !.pend = "program"]
              [] d = INTEL_CMD_ERASE -> [c EXCEPT !.pend = "erase"]
              [] d = INTEL_CMD_LOCKMODE -> [c EXCEPT !.pend = "lock"]
              [] OTHER -> c

\* one 16-bit write cycle, AMD (JEDEC) command set
AmdWrite(c, off, d) ==
    CASE d = AMD_CMD_RESET /\ c.pend # "program" ->
            [c EXCEPT !.mode = "array", !.cyc = 0, !.prep = FALSE,
                      !.pend = "none", !.stuck = FALSE, !.inop = FALSE]
      [] c.pend = "program" ->
            IF c.stuck THEN [c EXCEPT !.pend = "none"] ELSE ChipProgram(c, off, d)
      [] c.pend = "bypass_reset" ->
            [c EXCEPT !.pend = "none",
                      !.bypass = IF d = AMD_CMD_BYPASS_RESET2 THEN FALSE ELSE @]
      [] c.bypass ->
            CASE d = AMD_CMD_PROGRAM -> [c EXCEPT !.pend = "program"]
              [] d = AMD_CMD_BYPASS_RESET1 -> [c EXCEPT !.pend = "bypass_reset"]
              [] OTHER -> c
      [] c.cyc = 0 /\ off = UNLOCK_ADDR1 /\ d = UNLOCK_DATA1 -> [c EXCEPT !.cyc = 1]
      [] c.cyc = 1 /\ off = UNLOCK_ADDR2 /\ d = UNLOCK_DATA2 -> [c EXCEPT !.cyc = 2]
      [] c.cyc = 2 /\ c.prep ->
            IF d = AMD_CMD_ERASE_SECTOR /\ ~c.stuck
            THEN [ChipErase(c, off) EXCEPT !.cyc = 0, !.prep = FALSE]
            ELSE [c EXCEPT !.cyc = 0, !.prep = FALSE]
      [] c.cyc = 2 /\ ~c.prep /\ off = UNLOCK_ADDR1 ->
            CASE d = FLASH_CMD_ID -> [c EXCEPT !.cyc = 0, !.mode = "id"]
              [] d = AMD_CMD_ERASE_PREPARE -> [c EXCEPT !.cyc = 0, !.prep = TRUE]
              [] d = AMD_CMD_UNLOCK_BYPASS -> [c EXCEPT !.cyc = 0, !.bypass = TRUE]
              [] d = AMD_CMD_PROGRAM -> [c EXCEPT !.cyc = 0, !.pend = "program"]
              [] OTHER -> [c EXCEPT !.cyc = 0]
      [] OTHER -> [c EXCEPT !.cyc = 0]

ChipWrite(c, off, d) ==
    IF c.kind = "intel" THEN IntelWrite(c, off, d) ELSE AmdWrite(c, off, d)

\* what a 16-bit read cycle at off returns
ChipValue(c, off) ==
    LET data == IF InMem(c, off) THEN c.mem[off \div 2 + 1] ELSE ERASED
        busy == c.inop /\ c.rd = "busy"
    IN  CASE c.mode = "id" ->
                IF off = 0 THEN c.ids[1] ELSE IF off = 2 THEN c.ids[2] ELSE 0
          [] c.kind = "intel" /\ c.mode = "status" ->
                IF busy THEN 0 ELSE INTEL_ST_READY + c.sr
          [] c.kind = "amd" /\ c.stuck -> c.dq + AMD_ST_TIMEOUT
          [] c.kind = "amd" /\ busy /\ off = c.at -> c.dq
          [] OTHER -> data

\* the chip after that read cycle
ChipAfterRead(c, off) ==
    LET status == c.mode # "id" /\ c.inop
                  /\ (c.kind = "intel" => c.mode = "status")
                  /\ (c.kind = "amd" => off = c.at)
                  /\ ~c.stuck
    IN  IF ~status THEN [c EXCEPT !.rd = "final"]
        ELSE IF c.rd = "busy" THEN [c EXCEPT !.rd = "final", !.odd = @ - 1]
        ELSE [c EXCEPT !.inop = FALSE]

----------------------------------------------------------------------------
(* The boot loader behind the bulk endpoint: it carries out FW_WRITE_MEM   *)
(* and FW_READ_MEM packets on the processor's memory map.                  *)

\* the flash window of the memory map (both maps give it 4 MB at least)
FlashWindow == 4194304  \* 0x400000

InFlash(c, address) == c.base <= address /\ address < c.base + FlashWindow

RECURSIVE ChipWriteWords(_, _, _)
ChipWriteWords(c, off, ws) ==
    IF ws = <<>> THEN c
    ELSE ChipWriteWords(ChipWrite(c, off, ws[1]), off + 2, Tail(ws))

DeviceWrite(c, pkt) ==
    IF pkt.address = CX861XX_FLASH_ENABLE /\ c.base = CX861XX_FLASH_BASE
    THEN [c EXCEPT !.enabled = (pkt.data[1] % 2 = 1)]
    ELSE IF InFlash(c, pkt.address) /\ c.enabled /\ pkt.access_type = MA_WORD
    THEN ChipWriteWords(c, pkt.address - c.base, BytesWords(pkt.data))
    ELSE c

\* the bytes of one word put before the outcome of the reads after it
ReadCons(value, rest) ==
    [chip |-> rest.chip, data |-> WordBytes(value) \o rest.data]

\* the bytes n read cycles from off on return when no operation is under
\* way: no read changes what the next one returns
IdleRead(c, off, n) ==
    [k \in 1..(2 * n) |->
        WordBytes(ChipValue(c, off + 2 * ((k - 1) \div 2)))[((k - 1) % 2) + 1]]

RECURSIVE ChipReadWords(_, _, _)
\* n 16-bit read cycles from off on: [chip, data], data in bytes
ChipReadWords(c, off, n) ==
    IF n = 0 THEN [chip |-> c, data |-> <<>>]
    ELSE IF c.inop \/ n = 1
    THEN ReadCons(ChipValue(c, off),
                  ChipReadWords(ChipAfterRead(c, off), off + 2, n - 1))
    ELSE [chip |-> [c EXCEPT !.rd = "final"], data |-> IdleRead(c, off, n)]

\* the bytes by which answer packet k of a chunk is longer than it should
\* be: the last packet of a chunk is, by r.chip.extra
Excess(byte_count, r, k) ==
    IF k * r.chip.piece >= byte_count THEN r.chip.extra ELSE 0

\* the answer packets: the bytes asked for, r.chip.piece of them at most in
\* a packet.  A packet that says it is longer than it should be is copied
\* with the bytes that lie behind its data (r.chip.junk).
Answer(byte_count, r) ==
    [chip |-> r.chip,
     packets |->
        [k \in 1..((byte_count + r.chip.piece - 1) \div r.chip.piece) |->
            [dir |-> "in",
             byte_count |-> Min(r.chip.piece, byte_count - (k - 1) * r.chip.piece)
                            + Excess(byte_count, r, k),
             data |-> SubSeq(r.data, (k - 1) * r.chip.piece + 1,
                             Min(k * r.chip.piece, byte_count))
                      \o [j \in 1..Excess(byte_count, r, k) |->
                            r.chip.junk % 256]]]]

\* The answer to a FW_READ_MEM request: [chip, packets].  The boot loader
\* answers a request with packets that carry all the bytes asked for.
DeviceRead(c, pkt) ==
    IF InFlash(c, pkt.address) /\ c.enabled /\ pkt.access_type = MA_WORD
    THEN Answer(pkt.byte_count,
                ChipReadWords(c, pkt.address - c.base, pkt.byte_count \div 2))
    ELSE Answer(pkt.byte_count,
                [chip |-> c, data |-> [k \in 1..pkt.byte_count |-> 0]])

----------------------------------------------------------------------------
(* Memory access: cx_read_mem, cx_write_mem.  A world w is what these      *)
(* functions read and change: [bus, chip, ret, rbuf, val].                 *)

\* struct cx_fw_packet, as put on the endpoint; data holds byte_count bytes
cx_fw_packet(cmd, byte_count, access_type, ack_request, address, data) ==
    [dir |-> "out", cmd |-> cmd, byte_count |-> byte_count,
     access_type |-> access_type, ack_request |-> ack_request,
     address |-> address, data |-> data]

\* chunks of the size of the whole 64-byte packet
ChunkCountPacket(count) ==
    IF count > PacketDataSize + 8 THEN PacketDataSize + 8 ELSE count

\* packet.byte_count of the next chunk
ChunkCount(count) ==
    IF Above(count, PacketDataSize) THEN PacketDataSize ELSE count

\* One more libusb_bulk_transfer is made: c.lose counts down to the one
\* that fails, 0 when none will.
Transfer(c) == [c EXCEPT !.lose = IF @ > 0 THEN @ - 1 ELSE 0]

\* a libusb_bulk_transfer that returns an error: nothing crosses the
\* endpoint, the attempt is kept in the log
Failed(w, way) ==
    [w EXCEPT !.ret = w.chip.err, !.chip = Transfer(@),
              !.bus = Append(@, [dir |-> "lost", way |-> way])]

\* libusb_bulk_transfer of a write packet: the boot loader carries it out
SendWrite(w, packet) ==
    IF w.chip.lose = 1 THEN Failed(w, "out")
    ELSE [w EXCEPT !.ret = 0, !.bus = Append(@, packet),
                   !.chip = DeviceWrite(Transfer(@), packet)]

\* In cx_write_mem and cx_read_mem the value a call returns is named the
\* way a local variable is: CHOOSE r \in {F(x) : x \in {e}} : TRUE is F(e)
\* with e evaluated once.
RECURSIVE cx_write_mem(_, _, _, _, _)
RECURSIVE WriteOn(_, _, _, _, _)
\* a loop that does not look at ret
WriteOnAnyway(sent, addr, count, data, access_type) ==
    cx_write_mem(sent, addr, count, data, access_type)

cx_write_mem(w, addr, count, data, access_type) ==
    IF ~Above(count, 0) THEN [w EXCEPT !.ret = 0]
    ELSE CHOOSE r \in
            {WriteOn(sent, addr + ChunkCount(count), count - ChunkCount(count),
                     SubSeq(data, ChunkCount(count) + 1, Len(data)), access_type) :
                sent \in {SendWrite(w, cx_fw_packet(
                              FW_WRITE_MEM, ChunkCount(count), access_type, 0,
                              addr, SubSeq(data, 1, ChunkCount(count))))}} : TRUE

\* after the transfer: return ret, or go round the loop
WriteOn(sent, addr, count, data, access_type) ==
    IF sent.ret < 0 THEN sent
    ELSE cx_write_mem(sent, addr, count, data, access_type)

\* the answer packets wait in w.inq for the inbound transfers
Queue(w, packet, answer) ==
    [w EXCEPT !.ret = 0, !.bus = Append(@, packet), !.chip = answer.chip,
              !.inq = answer.packets]

\* libusb_bulk_transfer of a read request
SendRead(w, packet) ==
    IF w.chip.lose = 1 THEN Failed(w, "out")
    ELSE Queue(w, packet, DeviceRead(Transfer(w.chip), packet))

\* the inbound libusb_bulk_transfer and
\* memcpy(buf, packet.data, packet.byte_count) of the received packet
Receive(w, packet) ==
    [w EXCEPT !.inq = Tail(@), !.bus = Append(@, packet),
              !.chip = Transfer(@),
              !.rbuf = @ \o SubSeq(packet.data, 1, packet.byte_count)]

\* an if in place of the inner loop: one packet is received for a chunk
ReceiveOnce(w, packet_byte_count, count, addr) ==
    IF w.ret < 0 \/ ~(packet_byte_count > 0) \/ w.inq = <<>>
    THEN [w |-> w, count |-> count, addr |-> addr]
    ELSE [w |-> Receive(w, Head(w.inq)),
          count |-> count - Head(w.inq).byte_count,
          addr |-> addr + Head(w.inq).byte_count]

RECURSIVE ReceiveChunk(_, _, _, _)
\* the inner loop of cx_read_mem: [w, count, addr] after it; with nothing
\* to receive the transfer times out (LIBUSB_ERROR_TIMEOUT, -7)
ReceiveChunk(w, packet_byte_count, count, addr) ==
    IF w.ret < 0 \/ ~(packet_byte_count > 0)
    THEN [w |-> w, count |-> count, addr |-> addr]
    ELSE IF w.inq = <<>>
    THEN [w |-> [w EXCEPT !.ret = -7], count |-> count, addr |-> addr]
    ELSE IF w.chip.lose = 1
    THEN [w |-> Failed(w, "in"), count |-> count, addr |-> addr]
    ELSE ReceiveChunk(Receive(w, Head(w.inq)),
                      U8(packet_byte_count + 256 - Head(w.inq).byte_count),
                      count - Head(w.inq).byte_count,
                      addr + Head(w.inq).byte_count)

RECURSIVE cx_read_mem(_, _, _, _)
RECURSIVE ReadOn(_, _)
\* a function that returns after its first chunk
ReadOnce(got, access_type) == got.w

\* the bytes read are w.rbuf
cx_read_mem(w, addr, count, access_type) ==
    IF ~Above(count, 0) THEN [w EXCEPT !.ret = 0]
    ELSE CHOOSE r \in
            {ReadOn(got, access_type) :
                got \in {ReceiveChunk(sent, ChunkCount(count), count, addr) :
                    sent \in {SendRead(w, cx_fw_packet(
                                  FW_READ_MEM, ChunkCount(count), access_type,
                                  1, addr, <<>>))}}} : TRUE

\* after the inner loop: return ret, or go round the outer loop
ReadOn(got, access_type) ==
    IF got.w.ret < 0 THEN got.w
    ELSE cx_read_mem(got.w, got.addr, got.count, access_type)

----------------------------------------------------------------------------
(* Flash access: cx_flash_read, cx_flash_write, cx_flash_cmd.              *)
(* fb is the global flash_base.                                            *)

\* the local data of cx_flash_read when it returns
UnsetOr(r, data) == IF r.ret < 0 THEN r.chip.junk ELSE data

\* return data: the values read in a step are w.vals, the last one w.val.
\* When cx_read_mem failed nothing was copied to data, and what is returned
\* is whatever the variable held (r.chip.junk).
Data(r) ==
    [r EXCEPT !.val = UnsetOr(r, BytesWord(r.rbuf, 1)),
              !.vals = Append(@, UnsetOr(r, BytesWord(r.rbuf, 1)))]

cx_flash_read(w, fb, addr) ==
    CHOOSE d \in {Data(r) : r \in {cx_read_mem([w EXCEPT !.rbuf = <<>>],
                                                fb + addr, 2, MA_WORD)}} : TRUE

cx_flash_write(w, fb, addr, data) ==
    cx_write_mem(w, fb + addr, 2, WordBytes(data), MA_WORD)

\* a command written without its two unlock cycles
cx_flash_cmd_bare(w, fb, cmd) == cx_flash_write(w, fb, UNLOCK_ADDR1, cmd)

cx_flash_cmd(w, fb, cmd) ==
    cx_flash_write(
        cx_flash_write(
            cx_flash_write(w, fb, UNLOCK_ADDR1, UNLOCK_DATA1),
            fb, UNLOCK_ADDR2, UNLOCK_DATA2),
        fb, UNLOCK_ADDR1, cmd)

\* the world made of the variables, and the chip armed for this step
World(arm, rd) ==
    [bus |-> bus, chip |-> [chip EXCEPT !.arm = arm, !.rd = rd],
     ret |-> 0, rbuf |-> <<>>, val |-> 0, vals |-> <<>>, inq |-> <<>>]

----------------------------------------------------------------------------
(* Steps shared by the driver functions *)

\* what an erase or a program started in this step may end with
EraseArms == {0} \cup (IF chip.odd > 0 THEN chip.faults.erase ELSE {})

ProgramArms == {0} \cup (IF chip.odd > 0 THEN chip.faults.program ELSE {})

\* what a status read of this step may find
Reads == {"final"} \cup (IF chip.odd > 0 /\ chip.inop THEN {"busy"} ELSE {})

NoCall == [fn |-> "none", addr |-> 0, data |-> <<>>, size |-> 0, slow |-> FALSE,
           i |-> 0, status |-> 0, cont |-> "none", mark |-> 0]

\* the world's bus and chip become the next state's
Commit(w) ==
    /\ bus' = w.bus
    /\ chip' = [w.chip EXCEPT !.arm = 0, !.rd = "final"]

\* return r from the running driver call
Return(r) ==
    /\ ret' = r
    /\ pc' = call.cont
    /\ call' = NoCall
    /\ hist' = IF r = FALSE /\ hist.failed = "none"
               THEN [hist EXCEPT !.failed = call.fn] ELSE hist

\* A poll loop has no bound of its own: its passes are followed while the
\* transfers of the call are fewer than MaxCallLog.
InLog == Len(bus) - call.mark < MaxCallLog

Frame == UNCHANGED <<unit, usb, args, flash_base, cx861xx, flash, file, buf,
                     loop, exitcode>>

----------------------------------------------------------------------------
(* Intel flash *)

\* intel_erase_block up to its poll loop
IntelEraseStart ==
    /\ pc = "intel_erase_block"
    /\ \E arm \in EraseArms :
        LET w1 == cx_flash_write(World(arm, "final"), flash_base, 0,
                                 INTEL_CMD_CLEARSTATUS)
            w2 == cx_flash_write(w1, flash_base, 0, INTEL_CMD_READSTATUS)
            w3 == cx_flash_write(w2, flash_base, call.addr, INTEL_CMD_ERASE)
            w4 == cx_flash_write(w3, flash_base, call.addr, INTEL_CMD_ERASECONFIRM)
        IN  Commit(w4)
    /\ call' = [call EXCEPT !.i = 0]
    /\ pc' = "intel_erase_poll"
    /\ UNCHANGED <<ret, hist>>
    /\ Frame

\* a loop that reads the status once
IntelReadOnce(status) == FALSE

\* a status test that never finds the ready bit
IntelBusyAlways(status) == TRUE

\* while (!(status & INTEL_ST_READY))
IntelBusy(status) == BitAnd(status, INTEL_ST_READY) = 0

\* the loop test of intel_erase_block on the status w.val just read
IntelErasePolled(w) ==
    /\ Commit(w)
    /\ call' = [call EXCEPT !.status = w.val]
    /\ pc' = IF IntelBusy(w.val)
             THEN "intel_erase_poll" ELSE "intel_erase_end"

\* one pass of the do ... while (!(status & INTEL_ST_READY)) loop
IntelErasePoll ==
    /\ pc = "intel_erase_poll"
    /\ InLog
    /\ \E rd \in Reads :
        \E w \in {cx_flash_read(World(0, rd), flash_base, 0)} :
            IntelErasePolled(w)
    /\ UNCHANGED <<ret, hist>>
    /\ Frame

\* the status test of intel_erase_block
IntelEraseOk(status) == BitAnd(status, INTEL_ST_ERROR_MASK) = 0

\* intel_erase_block after its poll loop
IntelEraseEnd ==
    /\ pc = "intel_erase_end"
    /\ Commit(cx_flash_write(World(0, "final"), flash_base, 0, INTEL_CMD_READ))
    /\ Return(IntelEraseOk(call.status))
    /\ Frame

\* a merged write that starts at the word's own address
intel_unshifted_program_word(w, fb, addr, data) ==
    cx_write_mem(w, fb + addr, 4,
                 WordBytes(INTEL_CMD_PROGRAM) \o WordBytes(data), MA_WORD)

\* "merge PROGRAM command and data into one write"
intel_optimized_program_word(w, fb, addr, data) ==
    cx_write_mem(w, fb + addr - 2, 4,
                 WordBytes(INTEL_CMD_PROGRAM) \o WordBytes(data), MA_WORD)

\* intel_program_block up to its for loop
IntelProgramStart ==
    /\ pc = "intel_program_block"
    /\ LET w1 == cx_flash_write(World(0, "final"), flash_base, 0,
                                INTEL_CMD_CLEARSTATUS)
           w2 == cx_flash_write(w1, flash_base, 0, INTEL_CMD_READSTATUS)
       IN  Commit(w2)
    /\ call' = [call EXCEPT !.i = 0]
    /\ pc' = "intel_program_word"
    /\ UNCHANGED <<ret, hist>>
    /\ Frame

\* a loop that skips words of zeroes instead
SkipWordZero(data, i) == data[i + 1] = 0

\* "don't program FFFF words"
SkipWord(data, i) == data[i + 1] = ERASED

\* a loop that merges the first word as well
MergedAlways(i) == FALSE

\* "first word can't be optimized"
Unmerged(i) == i = 0

\* a loop that never waits for programming to end
PolledNever(slow) == FALSE

\* if (slow)
Polled(slow) == slow

\* one pass of the for loop, up to the slow-mode poll
IntelProgramWord ==
    /\ pc = "intel_program_word"
    /\ call.i < call.size \div 2
    /\ IF SkipWord(call.data, call.i)
       THEN /\ call' = [call EXCEPT !.i = @ + 1]
            /\ UNCHANGED <<pc, bus, chip>>
       ELSE /\ \E arm \in ProgramArms :
                LET w0 == World(arm, "final")
                    a == call.addr + call.i * 2
                    d == call.data[call.i + 1]
                IN  IF Unmerged(call.i)
                    THEN Commit(cx_flash_write(
                            cx_flash_write(w0, flash_base, call.addr,
                                           INTEL_CMD_PROGRAM),
                            flash_base, a, d))
                    ELSE Commit(intel_optimized_program_word(w0, flash_base, a, d))
            /\ IF Polled(call.slow)
               THEN pc' = "intel_program_poll" /\ call' = call
               ELSE pc' = pc /\ call' = [call EXCEPT !.i = @ + 1]
    /\ UNCHANGED <<ret, hist>>
    /\ Frame

\* a slow mode that does not look at the status it waited for
IntelProgramUnchecked(status) == FALSE

\* if (status & INTEL_ST_ERROR_MASK)
IntelProgramFailed(status) == BitAnd(status, INTEL_ST_ERROR_MASK) # 0

\* the loop test of the slow mode of intel_program_block on the status
\* w.val just read, and the error test after the loop
IntelProgramPolled(w) ==
    IF BitAnd(w.val, INTEL_ST_READY) = 0
    THEN /\ Commit(w)
         /\ call' = [call EXCEPT !.status = w.val]
         /\ UNCHANGED <<pc, ret, hist>>
    ELSE IF IntelProgramFailed(w.val)
    THEN /\ Commit(cx_flash_write(w, flash_base, 0, INTEL_CMD_READ))
         /\ Return(FALSE)
    ELSE /\ Commit(w)
         /\ call' = [call EXCEPT !.status = w.val, !.i = @ + 1]
         /\ pc' = "intel_program_word"
         /\ UNCHANGED <<ret, hist>>

\* one pass of the slow-mode do ... while loop, and the test after it
IntelProgramPoll ==
    /\ pc = "intel_program_poll"
    /\ InLog
    /\ \E rd \in Reads :
        IntelProgramPolled(cx_flash_read(World(0, rd), flash_base, 0))
    /\ Frame

\* a return that leaves the chip in the mode it is in
IntelProgramEndAsIs ==
    /\ pc = "intel_program_word"
    /\ ~(call.i < call.size \div 2)
    /\ UNCHANGED <<bus, chip>>
    /\ Return(TRUE)
    /\ Frame

\* intel_program_block after its for loop
IntelProgramEnd ==
    /\ pc = "intel_program_word"
    /\ ~(call.i < call.size \div 2)
    /\ Commit(cx_flash_write(World(0, "final"), flash_base, 0, INTEL_CMD_READ))
    /\ Return(TRUE)
    /\ Frame

\* a function that takes its argument the other way round
intel_set_block_unlock(w, fb, addr, lock) ==
    cx_flash_write(cx_flash_write(w, fb, addr, INTEL_CMD_LOCKMODE), fb, addr,
                   IF lock THEN INTEL_CMD_UNLOCK ELSE INTEL_CMD_LOCK)

intel_set_block_lock(w, fb, addr, lock) ==
    cx_flash_write(cx_flash_write(w, fb, addr, INTEL_CMD_LOCKMODE), fb, addr,
                   IF lock THEN INTEL_CMD_LOCK ELSE INTEL_CMD_UNLOCK)

----------------------------------------------------------------------------
(* AMD flash *)

\* amd_erase_block up to its poll loop
AmdEraseStart ==
    /\ pc = "amd_erase_block"
    /\ \E arm \in EraseArms :
        LET w1 == cx_flash_cmd(World(arm, "final"), flash_base,
                               AMD_CMD_ERASE_PREPARE)
            w2 == cx_flash_write(w1, flash_base, UNLOCK_ADDR1, UNLOCK_DATA1)
            w3 == cx_flash_write(w2, flash_base, UNLOCK_ADDR2, UNLOCK_DATA2)
            w4 == cx_flash_write(w3, flash_base, call.addr, AMD_CMD_ERASE_SECTOR)
        IN  Commit(w4)
    /\ call' = [call EXCEPT !.i = 0]
    /\ pc' = "amd_erase_poll"
    /\ UNCHANGED <<ret, hist>>
    /\ Frame

\* poll loops that do not look at the timeout bit
AmdTimeoutIgnored(status, done) == FALSE

\* the timeout test of the AMD poll loops against the value expected
AmdTimeout(status, done) == ~done /\ BitAnd(status, AMD_ST_TIMEOUT) # 0

\* the tests of the DATA polling loop of amd_erase_block on the status
\* w.val just read
AmdErasePolled(w) ==
    IF AmdTimeout(w.val, BitAnd(w.val, AMD_ST_DATAPOLL) # 0)
    THEN /\ Commit(cx_flash_write(w, flash_base, 0, AMD_CMD_RESET))
         /\ Return(FALSE)
    ELSE IF BitAnd(w.val, AMD_ST_DATAPOLL) # 0
    THEN /\ Commit(w)
         /\ Return(TRUE)
    ELSE /\ Commit(w)
         /\ call' = [call EXCEPT !.status = w.val]
         /\ UNCHANGED <<pc, ret, hist>>

\* one pass of the DATA polling loop of amd_erase_block
AmdErasePoll ==
    /\ pc = "amd_erase_poll"
    /\ InLog
    /\ \E rd \in Reads :
        \E w \in {cx_flash_read(World(0, rd), flash_base, call.addr)} :
            AmdErasePolled(w)
    /\ Frame

\* a merged write that starts at the word's own address
amd_unshifted_program_word(w, fb, addr, data) ==
    cx_write_mem(w, fb + addr, 4,
                 WordBytes(AMD_CMD_PROGRAM) \o WordBytes(data), MA_WORD)

amd_optimized_program_word(w, fb, addr, data) ==
    cx_write_mem(w, fb + addr - 2, 4,
                 WordBytes(AMD_CMD_PROGRAM) \o WordBytes(data), MA_WORD)

\* amd_program_block up to its for loop
AmdProgramStart ==
    /\ pc = "amd_program_block"
    /\ Commit(cx_flash_cmd(World(0, "final"), flash_base, AMD_CMD_UNLOCK_BYPASS))
    /\ call' = [call EXCEPT !.i = 0]
    /\ pc' = "amd_program_word"
    /\ UNCHANGED <<ret, hist>>
    /\ Frame

\* one pass of the for loop, up to the slow-mode poll
AmdProgramWord ==
    /\ pc = "amd_program_word"
    /\ call.i < call.size \div 2
    /\ IF SkipWord(call.data, call.i)
       THEN /\ call' = [call EXCEPT !.i = @ + 1]
            /\ UNCHANGED <<pc, bus, chip>>
       ELSE /\ \E arm \in ProgramArms :
                LET w0 == World(arm, "final")
                    a == call.addr + call.i * 2
                    d == call.data[call.i + 1]
                IN  IF Unmerged(call.i)
                    THEN Commit(cx_flash_write(
                            cx_flash_write(w0, flash_base, call.addr,
                                           AMD_CMD_PROGRAM),
                            flash_base, a, d))
                    ELSE Commit(amd_optimized_program_word(w0, flash_base, a, d))
            /\ IF Polled(call.slow)
               THEN pc' = "amd_program_poll" /\ call' = call
               ELSE pc' = pc /\ call' = [call EXCEPT !.i = @ + 1]
    /\ UNCHANGED <<ret, hist>>
    /\ Frame

\* the tests of the slow-mode DATA polling loop of amd_program_block on
\* the status w.val just read
AmdProgramPolled(w) ==
    IF AmdTimeout(w.val, w.val = call.data[call.i + 1])
    THEN /\ Commit(cx_flash_write(
                cx_flash_write(
                    cx_flash_write(w, flash_base, 0, AMD_CMD_BYPASS_RESET1),
                    flash_base, 0, AMD_CMD_BYPASS_RESET2),
                flash_base, 0, AMD_CMD_RESET))
         /\ Return(FALSE)
    ELSE IF w.val = call.data[call.i + 1]
    THEN /\ Commit(w)
         /\ call' = [call EXCEPT !.status = w.val, !.i = @ + 1]
         /\ pc' = "amd_program_word"
         /\ UNCHANGED <<ret, hist>>
    ELSE /\ Commit(w)
         /\ call' = [call EXCEPT !.status = w.val]
         /\ UNCHANGED <<pc, ret, hist>>

\* one pass of the slow-mode DATA polling loop of amd_program_block
AmdProgramPoll ==
    /\ pc = "amd_program_poll"
    /\ InLog
    /\ \E rd \in Reads :
        AmdProgramPolled(cx_flash_read(World(0, rd), flash_base,
                                       call.addr + call.i * 2))
    /\ Frame

\* amd_program_block after its for loop
AmdProgramEnd ==
    /\ pc = "amd_program_word"
    /\ ~(call.i < call.size \div 2)
    /\ Commit(cx_flash_write(
                cx_flash_write(World(0, "final"), flash_base, 0,
                               AMD_CMD_BYPASS_RESET1),
                flash_base, 0, AMD_CMD_BYPASS_RESET2))
    /\ Return(TRUE)
    /\ Frame

----------------------------------------------------------------------------
(* flash_identify *)

\* a search that takes the first entry when nothing matches
ChipLookupOrFirst(k, flash_mfg, flash_dev) ==
    IF \E j \in k..Len(supported_chips) :
            /\ supported_chips[j].mfg = flash_mfg
            /\ supported_chips[j].dev = flash_dev
    THEN CHOOSE j \in k..Len(supported_chips) :
            /\ supported_chips[j].mfg = flash_mfg
            /\ supported_chips[j].dev = flash_dev
    ELSE 1

\* a search that compares the device ID alone
ChipLookupByDev(k, flash_mfg, flash_dev) ==
    IF \E j \in k..(Len(supported_chips) - 1) : supported_chips[j].dev = flash_dev
    THEN CHOOSE j \in k..(Len(supported_chips) - 1) :
            supported_chips[j].dev = flash_dev
    ELSE 0

RECURSIVE ChipLookup(_, _, _)
\* the for loop of flash_identify from index k on: 0 is NULL
ChipLookup(k, flash_mfg, flash_dev) ==
    IF k > Len(supported_chips) \/ supported_chips[k].mfg = 0 THEN 0
    ELSE IF supported_chips[k].mfg = flash_mfg /\ supported_chips[k].dev = flash_dev
    THEN k
    ELSE ChipLookup(k + 1, flash_mfg, flash_dev)

\* the search of the catalog for flash_mfg = w.vals[1], flash_dev = w.vals[2]
Identified(w) ==
    /\ Commit(w)
    /\ flash' = ChipLookup(1, w.vals[1], w.vals[2])
    /\ hist' = [hist EXCEPT !.ids = w.vals, !.idbus = Len(w.bus)]

\* an identify that leaves the identifier mode before it reads the IDs
FlashIdentifyResetFirst ==
    /\ pc = "flash_identify"
    /\ \E w1 \in {cx_flash_cmd(World(0, "final"), flash_base, FLASH_CMD_ID)} :
       \E w2 \in {cx_flash_write(w1, flash_base, 0, INTEL_CMD_READ)} :
       \E w3 \in {cx_flash_write(w2, flash_base, 0, AMD_CMD_RESET)} :
       \E w4 \in {cx_flash_read(w3, flash_base, 0)} :
       \E w5 \in {cx_flash_read(w4, flash_base, 2)} :
           Identified(w5)
    /\ pc' = "identified"
    /\ UNCHANGED <<unit, usb, args, flash_base, cx861xx, file, buf, loop, call,
                   ret, exitcode>>

FlashIdentify ==
    /\ pc = "flash_identify"
    /\ \E w1 \in {cx_flash_cmd(World(0, "final"), flash_base, FLASH_CMD_ID)} :
       \E w2 \in {cx_flash_read(w1, flash_base, 0)} :
       \E w3 \in {cx_flash_read(w2, flash_base, 2)} :
       \E w4 \in {cx_flash_write(w3, flash_base, 0, INTEL_CMD_READ)} :
       \E w5 \in {cx_flash_write(w4, flash_base, 0, AMD_CMD_RESET)} :
           Identified(w5)
    /\ pc' = "identified"
    /\ UNCHANGED <<unit, usb, args, flash_base, cx861xx, file, buf, loop, call,
                   ret, exitcode>>

----------------------------------------------------------------------------
(* main *)

Exit(code) == pc' = "exit" /\ exitcode' = code

\* a main that resets the flash before it enables it
MainStartResetFirst ==
    /\ pc = "main"
    /\ cx861xx' = (usb.product = CX861XX_BOOT_PROD)
    /\ IF usb.product \notin {CX861XX_BOOT_PROD, CX82XXX_BOOT_PROD}
       THEN Exit(1) /\ UNCHANGED <<flash_base, bus, chip>>
       ELSE /\ flash_base' = IF cx861xx' THEN CX861XX_FLASH_BASE
                             ELSE CX82XXX_FLASH_BASE
            /\ IF usb.claim # 0 THEN Exit(2) /\ UNCHANGED <<bus, chip>>
               ELSE IF args.argc < 3 THEN Exit(3) /\ UNCHANGED <<bus, chip>>
               ELSE LET w0 == World(0, "final")
                        w1 == cx_flash_write(w0, flash_base', 0, INTEL_CMD_READ)
                        w2 == cx_flash_write(w1, flash_base', 0, AMD_CMD_RESET)
                        w3 == IF cx861xx'
                              THEN cx_write_mem(w2, CX861XX_FLASH_ENABLE, 1,
                                                <<1>>, MA_BYTE)
                              ELSE w2
                    IN  /\ Commit(w3)
                        /\ pc' = "flash_identify"
                        /\ UNCHANGED exitcode
    /\ UNCHANGED <<unit, usb, args, flash, file, buf, loop, call, ret, hist>>

\* main up to the call of flash_identify
MainStart ==
    /\ pc = "main"
    /\ cx861xx' = (usb.product = CX861XX_BOOT_PROD)
    /\ IF usb.product \notin {CX861XX_BOOT_PROD, CX82XXX_BOOT_PROD}
       THEN Exit(1) /\ UNCHANGED <<flash_base, bus, chip>>
       ELSE /\ flash_base' = IF cx861xx' THEN CX861XX_FLASH_BASE
                             ELSE CX82XXX_FLASH_BASE
            /\ IF usb.claim # 0 THEN Exit(2) /\ UNCHANGED <<bus, chip>>
               ELSE IF args.argc < 3 THEN Exit(3) /\ UNCHANGED <<bus, chip>>
               ELSE LET w0 == World(0, "final")
                        w1 == IF cx861xx'
                              THEN cx_write_mem(w0, CX861XX_FLASH_ENABLE, 1,
                                                <<1>>, MA_BYTE)
                              ELSE w0
                        w2 == cx_flash_write(w1, flash_base', 0, INTEL_CMD_READ)
                        w3 == cx_flash_write(w2, flash_base', 0, AMD_CMD_RESET)
                    IN  /\ Commit(w3)
                        /\ pc' = "flash_identify"
                        /\ UNCHANGED exitcode
    /\ UNCHANGED <<unit, usb, args, flash, file, buf, loop, call, ret, hist>>

\* the word an image holds at word index k when it is not 0xFFFF: each
\* index has its own value, and index 0 the value of a program command
DataWord(k) == INTEL_CMD_PROGRAM + 256 * k

\* the images of n words: which words are 0xFFFF repeats with ImagePeriod
Images(n) ==
    {WordsBytes([k \in 1..n |-> IF p[((k - 1) % ImagePeriod) + 1] THEN ERASED
                                ELSE DataWord(k - 1)]) :
        p \in [1..ImagePeriod -> BOOLEAN]}

\* the files given on the command line: the images of the flash size, and
\* one that is a byte short
Files(size) ==
    Images(size \div 2) \cup
    {SubSeq(f, 1, size - 1) : f \in {CHOOSE g \in Images(size \div 2) : TRUE}}

\* a run that takes a file of any length
ShortFileTaken(len, f) == FALSE

\* if (len < flash->size)
ShortFile(len, f) == len < flash_size(f)

\* main from the test of flash to the start of the block loop or of the read
MainOpenFile ==
    /\ pc = "identified"
    /\ IF flash = 0 THEN Exit(6) /\ UNCHANGED <<file, buf, loop>>
       ELSE IF args.mode \in {"write", "writeslow"}
       THEN \E f \in Files(flash_size(flash)) :
              LET len == Min(Len(f), flash_size(flash))
              IN  /\ file' = f
                  /\ buf' = SubSeq(f, 1, len)
                  /\ IF ShortFile(len, flash)
                     THEN Exit(5) /\ UNCHANGED loop
                     ELSE /\ loop' = [i |-> 0, j |-> 0, addr |-> 0]
                          /\ pc' = "loop"
                          /\ UNCHANGED exitcode
       ELSE IF args.mode = "read"
       THEN /\ file' = <<>>
            /\ pc' = "read"
            /\ UNCHANGED <<buf, loop, exitcode>>
       ELSE Exit(3) /\ UNCHANGED <<file, buf, loop>>
    /\ UNCHANGED <<unit, usb, args, flash_base, cx861xx, flash, call, ret, bus,
                   chip, hist>>

\* the tests of the two for loops, and i++
MainLoop ==
    /\ pc = "loop"
    /\ LET blocks == flash_blocks(flash)
       IN  IF blocks[loop.i + 1].count > 0
           THEN IF loop.j < blocks[loop.i + 1].count
                THEN pc' = "block" /\ UNCHANGED loop
                ELSE pc' = pc /\ loop' = [loop EXCEPT !.i = @ + 1, !.j = 0]
           ELSE pc' = "close" /\ UNCHANGED loop
    /\ UNCHANGED <<unit, usb, args, flash_base, cx861xx, flash, file, buf, call,
                   ret, exitcode, bus, chip, hist>>

\* a call of a driver function by main
Call(fn, addr, data, size, slow, cont) ==
    /\ call' = [fn |-> fn, addr |-> addr, data |-> data, size |-> size,
                slow |-> slow, i |-> 0, status |-> 0, cont |-> cont,
                mark |-> Len(bus')]
    /\ pc' = fn
    /\ hist' = [hist EXCEPT !.calls = Append(@,
                    [fn |-> fn, addr |-> addr, size |-> size, data |-> data])]

\* a loop that takes the size of the first table entry for every block
BlockSizeFirst(f, i) == flash_blocks(f)[1].size

\* flash_blocks[i].size
BlockSize(f, i) == flash_blocks(f)[i + 1].size

\* set_block_lock(dev, addr, false) and the call of erase_block
MainUnlock ==
    /\ pc = "block"
    /\ Commit(IF supported_chips[flash].set_block_lock # "NULL"
              THEN intel_set_block_lock(World(0, "final"), flash_base,
                                        loop.addr, FALSE)
              ELSE World(0, "final"))
    /\ Call(supported_chips[flash].erase_block, loop.addr, <<>>, 0, FALSE,
            "program")
    /\ UNCHANGED ret
    /\ Frame

\* the call of program_block; its result, like erase_block's, is not looked at
MainProgram ==
    /\ pc = "program"
    /\ UNCHANGED <<ret, bus, chip>>
    /\ Call(supported_chips[flash].program_block, loop.addr,
            BytesWords(SubSeq(buf, loop.addr + 1, Len(buf))),
            BlockSize(flash, loop.i),
            args.mode = "writeslow", "lock")
    /\ Frame

\* set_block_lock(dev, addr, true), addr += size and j++
MainLock ==
    /\ pc = "lock"
    /\ Commit(IF supported_chips[flash].set_block_lock # "NULL"
              THEN intel_set_block_lock(World(0, "final"), flash_base,
                                        loop.addr, TRUE)
              ELSE World(0, "final"))
    /\ loop' = [loop EXCEPT !.addr = @ + BlockSize(flash, loop.i), !.j = @ + 1]
    /\ pc' = "loop"
    /\ UNCHANGED <<unit, usb, args, flash_base, cx861xx, flash, file, buf, call,
                   ret, exitcode, hist>>

\* fwrite(buf, 1, flash->size, f) of what cx_read_mem left in buf
ReadDone(w) ==
    /\ Commit(w)
    /\ buf' = w.rbuf
    /\ file' = w.rbuf

\* the read branch: cx_read_mem of the whole flash, then fwrite
MainRead ==
    /\ pc = "read"
    /\ ReadDone(cx_read_mem(World(0, "final"), flash_base, flash_size(flash),
                             MA_WORD))
    /\ pc' = "close"
    /\ UNCHANGED <<unit, usb, args, flash_base, cx861xx, flash, loop, call, ret,
                   exitcode, hist>>

\* fclose, libusb_close, return 0
MainClose ==
    /\ pc = "close"
    /\ pc' = "done"
    /\ exitcode' = 0
    /\ UNCHANGED <<unit, usb, args, flash_base, cx861xx, flash, file, buf, loop,
                   call, ret, bus, chip, hist>>

----------------------------------------------------------------------------
(* The devices a run may meet *)

\* The boards: a CX861xx with the Intel part (the Flarion modem), CX82xxx
\* routers with one of the two 29LV160 parts the README names, and a CX861xx
\* with a part of another maker (ST M29W160EB).  The 29LV160 parts share the
\* block table of the MXIC one.
Boards == {
    [product |-> CX861XX_BOOT_PROD, name |-> "Intel 28F320C3B",
     ids |-> <<\H0089, \H88c5>>, kind |-> "intel", table |-> 1],
    [product |-> CX82XXX_BOOT_PROD, name |-> "MXIC MX29LV160B",
     ids |-> <<\H00c2, \H2249>>, kind |-> "amd", table |-> 2],
    [product |-> CX82XXX_BOOT_PROD, name |-> "AMD Am29LV160DB",
     ids |-> <<\H0001, \H2249>>, kind |-> "amd", table |-> 2],
    [product |-> CX861XX_BOOT_PROD, name |-> "ST M29W160EB",
     ids |-> <<\H0020, \H2249>>, kind |-> "amd", table |-> 2] }

\* a chip as it is when the boot loader starts: it holds an old image of
\* zero words, reads its array, and (Intel) has every block locked
PowerOn(board, base, odd, faults) ==
    LET geom == BlockStarts(ScaledBlocks(supported_chips[board.table].blocks), 0)
        words == BlockSum(ScaledBlocks(supported_chips[board.table].blocks)) \div 2
    IN  [kind |-> board.kind, ids |-> board.ids, base |-> base,
         enabled |-> (base # CX861XX_FLASH_BASE), geom |-> geom,
         mem |-> [k \in 1..words |-> 0], mode |-> "array", pend |-> "none",
         cyc |-> 0, prep |-> FALSE, bypass |-> FALSE, sr |-> 0,
         locked |-> IF board.kind = "intel"
                    THEN {geom[k].addr : k \in 1..Len(geom)} ELSE {},
         inop |-> FALSE, stuck |-> FALSE, dq |-> 0, at |-> 0,
         odd |-> odd, faults |-> faults, arm |-> 0, rd |-> "final",
         lose |-> 0, err |-> -7, junk |-> 0, piece |-> PacketDataSize,
         extra |-> 0]

\* the errors an operation may end with in a whole run
RunFaults(kind) ==
    IF kind = "intel"
    THEN [erase |-> {INTEL_ST_ERASEERROR, INTEL_ST_ERASEERROR + INTEL_ST_VPPERROR},
          program |-> {INTEL_ST_PROGRAMERROR}]
    ELSE [erase |-> {AMD_ST_TIMEOUT}, program |-> {AMD_ST_TIMEOUT}]

BaseOf(product) ==
    IF product = CX861XX_BOOT_PROD THEN CX861XX_FLASH_BASE ELSE CX82XXX_FLASH_BASE

NoHist == [calls |-> <<>>, failed |-> "none", ids |-> <<>>, idbus |-> 0,
           written |-> <<>>, start |-> 0]

Init ==
    /\ pc = "main"
    /\ unit = "main"
    /\ usb \in [product : {CX861XX_BOOT_PROD, CX82XXX_BOOT_PROD, 0},
                claim : {0, -6}]
    /\ args \in [argc : {2, 3}, mode : {"read", "write", "writeslow", "erase"}]
    /\ flash_base = 0
    /\ cx861xx = FALSE
    /\ flash = 0
    /\ file = <<>>
    /\ buf = <<>>
    /\ loop = [i |-> 0, j |-> 0, addr |-> 0]
    /\ call = NoCall
    /\ ret = TRUE
    /\ exitcode = -1
    /\ bus = <<>>
    /\ \E b \in Boards :
        /\ usb.product \in {b.product, 0}
        /\ chip = PowerOn(b, BaseOf(b.product), MaxOdd, RunFaults(b.kind))
    /\ hist = NoHist

Next ==
    \/ MainStart
    \/ FlashIdentify
    \/ MainOpenFile
    \/ MainLoop
    \/ MainUnlock
    \/ IntelEraseStart
    \/ IntelErasePoll
    \/ IntelEraseEnd
    \/ AmdEraseStart
    \/ AmdErasePoll
    \/ MainProgram
    \/ IntelProgramStart
    \/ IntelProgramWord
    \/ IntelProgramPoll
    \/ IntelProgramEnd
    \/ AmdProgramStart
    \/ AmdProgramWord
    \/ AmdProgramPoll
    \/ AmdProgramEnd
    \/ MainLock
    \/ MainRead
    \/ MainClose

Spec == Init /\ [][Next]_vars

----------------------------------------------------------------------------
(* A write run followed by a read run on the same board, the flash doing   *)
(* what it is told: no operation fails and every status read finds the     *)
(* operation over.                                                         *)

\* the utility is started again, to read back what it wrote
Rerun ==
    /\ pc = "done"
    /\ unit = "roundtrip"
    /\ args.mode \in {"write", "writeslow"}
    /\ pc' = "main"
    /\ args' = [args EXCEPT !.mode = "read"]
    /\ flash_base' = 0
    /\ cx861xx' = FALSE
    /\ flash' = 0
    /\ buf' = <<>>
    /\ loop' = [i |-> 0, j |-> 0, addr |-> 0]
    /\ exitcode' = -1
    /\ hist' = [NoHist EXCEPT !.written = file, !.start = Len(bus)]
    /\ UNCHANGED <<unit, usb, file, call, ret, bus, chip>>

InitRoundTrip ==
    /\ pc = "main"
    /\ unit = "roundtrip"
    /\ args \in [argc : {3}, mode : {"write", "writeslow"}]
    /\ flash_base = 0
    /\ cx861xx = FALSE
    /\ flash = 0
    /\ file = <<>>
    /\ buf = <<>>
    /\ loop = [i |-> 0, j |-> 0, addr |-> 0]
    /\ call = NoCall
    /\ ret = TRUE
    /\ exitcode = -1
    /\ bus = <<>>
    /\ \E b \in Boards :
        /\ usb = [product |-> b.product, claim |-> 0]
        /\ chip = PowerOn(b, BaseOf(b.product), 0, RunFaults(b.kind))
    /\ hist = NoHist

NextRoundTrip == Next \/ Rerun

SpecRoundTrip == InitRoundTrip /\ [][NextRoundTrip]_vars

----------------------------------------------------------------------------
(* One call of a driver function (erase_block or program_block) on an     *)
(* identified chip with its blocks unlocked, as main makes it.  A status   *)
(* read may find the operation still running MaxBusy times, the operation  *)
(* may end with an error, and one bulk transfer of the call may fail.      *)

\* what the local data of cx_flash_read may hold when nothing was read
Junk == {0, INTEL_ST_READY}

\* the chip as main leaves it before the call: enabled, unlocked, and
\* erased when erase_block has been called
Ready(c, erased, lose, junk) ==
    [c EXCEPT !.enabled = TRUE, !.locked = {}, !.lose = lose, !.junk = junk,
              !.mem = IF erased THEN [k \in DOMAIN c.mem |-> ERASED] ELSE @]

\* the calls main can make on the chip of table entry t, block blk
DriverCalls(t, blk) ==
    {[fn |-> supported_chips[t].erase_block, addr |-> blk.addr, data |-> <<>>,
      size |-> 0, slow |-> FALSE, i |-> 0, status |-> 0, cont |-> "returned",
      mark |-> 0]}
    \cup
    {[fn |-> supported_chips[t].program_block, addr |-> blk.addr,
      data |-> BytesWords(d), size |-> blk.size, slow |-> slow, i |-> 0,
      status |-> 0, cont |-> "returned", mark |-> 0] :
        d \in Images(blk.size \div 2), slow \in BOOLEAN}

InitDriver ==
    /\ unit = "driver"
    /\ file = <<>>
    /\ buf = <<>>
    /\ loop = [i |-> 0, j |-> 0, addr |-> 0]
    /\ ret = TRUE
    /\ exitcode = -1
    /\ bus = <<>>
    /\ \E b \in Boards, lose \in 0..MaxLose, junk \in Junk, erased \in BOOLEAN :
        /\ usb = [product |-> b.product, claim |-> 0]
        /\ flash_base = BaseOf(b.product)
        /\ cx861xx = (b.product = CX861XX_BOOT_PROD)
        /\ flash = b.table
        /\ chip = Ready(PowerOn(b, BaseOf(b.product), MaxBusy, RunFaults(b.kind)),
                        erased, lose, junk)
        /\ \E k \in 1..Len(chip.geom) :
            call \in DriverCalls(b.table, chip.geom[k])
        /\ erased = (call.fn \in {"intel_program_block", "amd_program_block"})
    /\ pc = call.fn
    /\ args = [argc |-> 3, mode |-> IF call.slow THEN "writeslow" ELSE "write"]
    /\ hist = [NoHist EXCEPT !.calls = <<[fn |-> call.fn, addr |-> call.addr,
                                          size |-> call.size,
                                          data |-> call.data]>>]

NextDriver ==
    \/ IntelEraseStart
    \/ IntelErasePoll
    \/ IntelEraseEnd
    \/ AmdEraseStart
    \/ AmdErasePoll
    \/ IntelProgramStart
    \/ IntelProgramWord
    \/ IntelProgramPoll
    \/ IntelProgramEnd
    \/ AmdProgramStart
    \/ AmdProgramWord
    \/ AmdProgramPoll
    \/ AmdProgramEnd

SpecDriver == InitDriver /\ [][NextDriver]_vars

----------------------------------------------------------------------------
(* Properties of the write run                                             *)

\* C1: once erase_block or program_block has returned false the write run
\* sends nothing more to the device: no program or lock for that block and
\* no erase, program or lock for a later one.
C1_FailureEndsTheRun == [][hist.failed # "none" => bus' = bus]_vars

\* the status bits the comment at INTEL_ST_ERROR_MASK names: erase, program,
\* vpp, lock
NamedErrorBits ==
    {INTEL_ST_ERASEERROR, INTEL_ST_PROGRAMERROR, INTEL_ST_VPPERROR,
     INTEL_ST_LOCKED}

\* C2: intel_erase_block returns false exactly when the final ready status
\* has at least one of the erase, program, vpp and lock bits set.
C2_EraseFailsOnNamedBits ==
    [][pc = "intel_erase_end" =>
        (ret' = FALSE <=> \E b \in NamedErrorBits : BitAnd(call.status, b) # 0)]_vars

----------------------------------------------------------------------------
(* Properties of program_block, read off the packets it has sent           *)

ProgramBlocks == {"intel_program_block", "amd_program_block"}

\* the write packets sent since the running driver call was made
CallWrites ==
    SelectSeq(SubSeq(bus, call.mark + 1, Len(bus)),
              LAMBDA p : p.dir = "out" /\ p.cmd = FW_WRITE_MEM)

\* the program command of the running driver
ProgramCmd ==
    IF call.fn = "intel_program_block" THEN INTEL_CMD_PROGRAM ELSE AMD_CMD_PROGRAM

\* the program operations among the write packets ws: a 4-byte write of
\* the program command and a data word, or a 2-byte write of the program
\* command and the 2-byte write after it
RECURSIVE ProgramOps(_, _)
ProgramOps(ws, cmd) ==
    IF ws = <<>> THEN <<>>
    ELSE IF Head(ws).byte_count = 4 /\ BytesWord(Head(ws).data, 1) = cmd
    THEN <<[address |-> Head(ws).address + 2,
            data |-> BytesWord(Head(ws).data, 3),
            merged |-> TRUE, cmd_address |-> Head(ws).address]>>
         \o ProgramOps(Tail(ws), cmd)
    ELSE IF Head(ws).byte_count = 2 /\ BytesWord(Head(ws).data, 1) = cmd
            /\ Len(ws) > 1
    THEN <<[address |-> ws[2].address, data |-> BytesWord(ws[2].data, 1),
            merged |-> FALSE, cmd_address |-> Head(ws).address]>>
         \o ProgramOps(Tail(Tail(ws)), cmd)
    ELSE ProgramOps(Tail(ws), cmd)

\* the words k..n-1 of data that differ from 0xFFFF, with their addresses
RECURSIVE NonErased(_, _, _, _)
NonErased(data, base, k, n) ==
    IF k >= n THEN <<>>
    ELSE (IF data[k + 1] = ERASED THEN <<>>
          ELSE <<[address |-> base + 2 * k, data |-> data[k + 1]]>>)
         \o NonErased(data, base, k + 1, n)

\* how many words of the block the running program_block has dealt with
WordsDone ==
    IF pc \in {"intel_program_poll", "amd_program_poll"} THEN call.i + 1
    ELSE call.i

\* the writes program_block sends before its loop
Preamble == IF call.fn = "intel_program_block" THEN 2 ELSE 3

RECURSIVE OpPackets(_)
OpPackets(ops) ==
    IF ops = <<>> THEN 0
    ELSE (IF Head(ops).merged THEN 1 ELSE 2) + OpPackets(Tail(ops))

ProgramSkipsErased(ops) ==
    /\ [k \in 1..Len(ops) |-> [address |-> ops[k].address, data |-> ops[k].data]]
         = NonErased(call.data, flash_base + call.addr, 0, WordsDone)
    /\ pc \notin ProgramBlocks => Len(CallWrites) = Preamble + OpPackets(ops)

\* C3: in both chip families program_block sends no program command and no
\* data write for a word of the image equal to 0xFFFF: the program
\* operations it has sent are those of the words so far that differ from
\* 0xFFFF, one each, and it has sent no other write; at the end of the loop
\* their number is the number of such words of the block.
C3_ErasedWordsSkipped ==
    call.fn \in ProgramBlocks =>
        ProgramSkipsErased(ProgramOps(CallWrites, ProgramCmd))

\* a program_block call whose loop has ended
LoopEnded ==
    /\ call.fn \in ProgramBlocks
    /\ pc \in {"intel_program_word", "amd_program_word"}
    /\ call.i = call.size \div 2

C3_Witness ==
    /\ LoopEnded
    /\ \E k \in 1..(call.size \div 2) : call.data[k] = ERASED
    /\ \E k \in 1..(call.size \div 2) : call.data[k] # ERASED
    /\ ProgramOps(CallWrites, ProgramCmd) # <<>>

ProgramInOrder(ops) ==
    /\ \A k \in 1..(Len(ops) - 1) : ops[k].address < ops[k + 1].address
    /\ \A k \in 1..Len(ops) :
        ops[k].address = flash_base + call.addr
            => ~ops[k].merged /\ ops[k].cmd_address = flash_base + call.addr

\* C4: within one program_block call the programmed words go out in
\* strictly increasing address order, and the word at the block address is
\* written as a 2-byte write of the program command at the block address
\* and a 2-byte write of the data, never as the merged 4-byte write.
C4_IncreasingAndFirstUnmerged ==
    call.fn \in ProgramBlocks => ProgramInOrder(ProgramOps(CallWrites, ProgramCmd))

C4_FirstAndSecond(ops) ==
    /\ Len(ops) >= 2
    /\ ops[1].address = flash_base + call.addr
    /\ ~ops[1].merged
    /\ ops[2].merged

C4_Witness == LoopEnded /\ C4_FirstAndSecond(ProgramOps(CallWrites, ProgramCmd))

----------------------------------------------------------------------------
(* Write, then read back                                                   *)

\* a read run that has filled its buffer, after a write run of hist.written
ReadBack ==
    /\ args.mode = "read"
    /\ pc \in {"close", "done"}
    /\ hist.written # <<>>

\* C5: on a flash where an erase leaves 0xFFFF in every word of the block
\* and a program of a word of an erased block stores the word, a write run
\* of an image and a read run after it give a buffer, and a file, equal to
\* the image byte for byte, for words that differ from 0xFFFF and for words
\* equal to it.
C5_RoundTrip == ReadBack => buf = hist.written /\ file = hist.written

C5_Witness ==
    /\ ReadBack
    /\ pc = "done"
    /\ file = hist.written
    /\ Len(file) > PacketDataSize
    /\ \E k \in 1..(Len(file) \div 2) : BytesWord(file, 2 * k - 1) = ERASED
    /\ \E k \in 1..(Len(file) \div 2) : BytesWord(file, 2 * k - 1) # ERASED

----------------------------------------------------------------------------
(* Identification and the catalog                                          *)

\* the indices of the catalog entries before the end marker
CatalogEntries ==
    {k \in 1..Len(supported_chips) : \A j \in 1..k : supported_chips[j].mfg # 0}

\* entry k has the manufacturer and device IDs ids
HasIds(k, ids) ==
    supported_chips[k].mfg = ids[1] /\ supported_chips[k].dev = ids[2]

\* flash_identify has returned, with IDs no catalog entry has
Unsupported ==
    /\ hist.ids # <<>>
    /\ \A k \in CatalogEntries : ~HasIds(k, hist.ids)

\* C6: when the IDs flash_identify reads match no catalog entry the run ends
\* with the unsupported-chip exit status 6, and nothing is sent to the
\* device after flash_identify: no driver is called, no block is unlocked or
\* locked and the flash is not read.
C6_UnsupportedStops ==
    Unsupported =>
        /\ pc \in {"identified", "exit"}
        /\ pc = "exit" => exitcode = 6
        /\ Len(bus) = hist.idbus
        /\ hist.calls = <<>>
        /\ buf = <<>>

C6_Witness == Unsupported /\ pc = "exit" /\ exitcode = 6 /\ args.mode = "read"

\* the entry of the Intel 28F320C3B as the source gives it
Intel28F320C3B ==
    [mfg |-> 137, dev |-> 35013, name |-> "Intel 28F320C3B",
     size |-> 4 * 1024 * 1024,
     blocks |-> <<[count |-> 8, size |-> 8192], [count |-> 63, size |-> 65536],
                  [count |-> 0, size |-> 0]>>,
     set_block_lock |-> "intel_set_block_lock",
     erase_block |-> "intel_erase_block",
     program_block |-> "intel_program_block"]

\* C7: flash_identify returns a descriptor exactly when the IDs it read are
\* those of a catalog entry, and then that entry; for 0x0089 and 0x88c5 it
\* is the entry of the 4 MiB chip of 8 blocks of 8192 bytes and 63 blocks of
\* 65536 bytes with the Intel lock, erase and program functions.
C7_IdentifySelects ==
    hist.ids # <<>> =>
        /\ flash # 0 <=> \E k \in CatalogEntries : HasIds(k, hist.ids)
        /\ flash # 0 => flash \in CatalogEntries /\ HasIds(flash, hist.ids)
        /\ hist.ids = <<137, 35013>> =>
            flash # 0 /\ supported_chips[flash] = Intel28F320C3B

C7_Witness ==
    /\ hist.ids = <<137, 35013>>
    /\ flash # 0
    /\ supported_chips[flash] = Intel28F320C3B
    /\ pc = "identified"

\* the chips the README lists as supported
ReadmeChips == {"Intel 28F320C3B", "AMD Am29LV160DB", "MXIC MX29LV160B"}

\* C8: every chip the README lists as supported is accepted by
\* flash_identify: with the IDs of that chip read, a descriptor is selected;
\* so for the AMD Am29LV160DB with its IDs 0x0001 and 0x2249.
C8_ReadmeChipsAccepted ==
    \A b \in Boards :
        b.name \in ReadmeChips /\ hist.ids = b.ids => flash # 0

\* C9: for every descriptor of the catalog the sum of count * size over its
\* block descriptors before the zero-count end marker is its declared size;
\* so it is for the descriptor flash_identify has returned.
C9_CatalogSizes ==
    \A k \in (CatalogEntries \cup {flash}) \ {0} :
        BlockSum(supported_chips[k].blocks) = supported_chips[k].size

\* a run that has a descriptor and uses its size
C9_Witness ==
    /\ flash \in CatalogEntries
    /\ pc = "read"
    /\ BlockSum(supported_chips[flash].blocks) = supported_chips[flash].size

----------------------------------------------------------------------------
(* The block loop of the write run                                         *)

\* the calls main has made of the functions fns, in order
CallsOf(fns) == SelectSeq(hist.calls, LAMBDA c : c.fn \in fns)

\* the sum of the sizes of the blocks before the k-th of the sequence bl
RECURSIVE SizesBefore(_, _)
SizesBefore(bl, k) ==
    IF k <= 1 THEN 0 ELSE bl[k - 1].size + SizesBefore(bl, k - 1)

\* er and pr are the erase_block and program_block calls of a visit, block
\* by block, of the blocks bl
Visits(bl, er, pr) ==
    /\ Len(pr) <= Len(er) /\ Len(er) <= Len(pr) + 1 /\ Len(er) <= Len(bl)
    /\ \A k \in 1..Len(er) : er[k].addr = SizesBefore(bl, k)
    /\ \A k \in 1..Len(pr) :
        /\ pr[k].addr = SizesBefore(bl, k)
        /\ pr[k].size = bl[k].size
        /\ \A n \in 1..(pr[k].size \div 2) :
            pr[k].data[n] = BytesWord(buf, pr[k].addr + 2 * n - 1)
    /\ \A k \in 1..(Len(pr) - 1) : pr[k].addr < pr[k + 1].addr
    /\ pc \in {"close", "done"} =>
        Len(pr) = Len(bl) /\ loop.addr = SizesBefore(bl, Len(bl) + 1)

\* C10: the write run visits the blocks of the descriptor's block table
\* once each, in ascending address order from offset 0: the address of each
\* block is the sum of the sizes of the blocks before it, program_block gets
\* the block's declared size and the image bytes from that address on, and
\* after the last block the running address is the total size.
C10_BlocksInOrder ==
    flash # 0 /\ args.mode \in {"write", "writeslow"} =>
        /\ Visits(BlockStarts(flash_blocks(flash), 0),
                  CallsOf({"intel_erase_block", "amd_erase_block"}),
                  CallsOf(ProgramBlocks))
        /\ pc \in {"close", "done"} => loop.addr = flash_size(flash)

\* a finished write run that went through two blocks of one table entry
\* and on to a block of another size
C10_Witness ==
    /\ pc = "done"
    /\ args.mode = "write"
    /\ Len(CallsOf(ProgramBlocks)) >= 3
    /\ CallsOf(ProgramBlocks)[1].size = CallsOf(ProgramBlocks)[2].size
    /\ CallsOf(ProgramBlocks)[2].size < CallsOf(ProgramBlocks)[3].size
    /\ CallsOf(ProgramBlocks)[3].addr > CallsOf(ProgramBlocks)[2].addr
    /\ loop.addr = flash_size(flash)

----------------------------------------------------------------------------
(* One call of cx_read_mem or cx_write_mem on the internal SRAM or on the  *)
(* flash, of up to MaxChunks packets and a byte.  The boot loader answers  *)
(* a read with packets of chip.piece bytes at most, and one bulk transfer  *)
(* of the call may fail.  The flash is read as the utility reads it: in    *)
(* words, an even number of bytes; writes go to the SRAM.                  *)

\* internal SRAM of the CX861xx, SDRAM of the CX82xxx
RAM_BASE == 8388608  \* 0x00800000

\* what a failed libusb_bulk_transfer may return: LIBUSB_ERROR_TIMEOUT,
\* LIBUSB_ERROR_NO_DEVICE
Errors == {-7, -4}

\* the answer packets the boot loader may cut a chunk into
Pieces == {PacketDataSize, PacketDataSize \div 2}

\* the bytes a caller hands to cx_write_mem
MemData(count) == [k \in 1..count |-> k % 256]

MemCalls(base) ==
    {[fn |-> fn, addr |-> addr, data |-> MemData(count), size |-> count,
      access_type |-> access_type, cont |-> "returned", mark |-> 0] :
        fn \in {"cx_read_mem", "cx_write_mem"}, addr \in {RAM_BASE, base},
        count \in 1..(MaxChunks * PacketDataSize + 1),
        access_type \in {MA_BYTE, MA_WORD}}

MemStart(u, extras) ==
    /\ unit = u
    /\ file = <<>>
    /\ buf = <<>>
    /\ loop = [i |-> 0, j |-> 0, addr |-> 0]
    /\ ret = 0
    /\ exitcode = -1
    /\ bus = <<>>
    /\ args = [argc |-> 3, mode |-> "read"]
    /\ hist = NoHist
    /\ \E b \in Boards, lose \in 0..MaxLose, piece \in Pieces, err \in Errors,
          extra \in extras :
        /\ b.name \in {"Intel 28F320C3B", "MXIC MX29LV160B"}
        /\ usb = [product |-> b.product, claim |-> 0]
        /\ flash_base = BaseOf(b.product)
        /\ cx861xx = (b.product = CX861XX_BOOT_PROD)
        /\ flash = b.table
        /\ chip = [Ready(PowerOn(b, BaseOf(b.product), 0, RunFaults(b.kind)),
                         FALSE, lose, 0)
                   EXCEPT !.piece = piece, !.err = err, !.extra = extra]
        /\ call \in {c \in MemCalls(flash_base) :
                        c.addr = flash_base =>
                            /\ c.fn = "cx_read_mem"
                            /\ c.access_type = MA_WORD
                            /\ c.size % 2 = 0}
    /\ pc = call.fn

\* the boot loader answers as it should
InitMem == MemStart("mem", {0})

\* the function returns w.ret, having filled buf
MemReturn(w) ==
    /\ Commit(w)
    /\ buf' = w.rbuf
    /\ ret' = w.ret
    /\ pc' = call.cont
    /\ UNCHANGED <<unit, usb, args, flash_base, cx861xx, flash, file, loop,
                   exitcode, call, hist>>

MemRead ==
    /\ pc = "cx_read_mem"
    /\ MemReturn(cx_read_mem(World(0, "final"), call.addr, call.size,
                             call.access_type))

MemWrite ==
    /\ pc = "cx_write_mem"
    /\ MemReturn(cx_write_mem(World(0, "final"), call.addr, call.size,
                              call.data, call.access_type))

NextMem == MemRead \/ MemWrite

SpecMem == InitMem /\ [][NextMem]_vars

----------------------------------------------------------------------------
(* One call of cx_read_mem answered by a device that does not keep to the  *)
(* chunk asked for: the last packet of each chunk says it carries up to    *)
(* MaxExtra bytes more.  No bulk transfer fails.                           *)

InitDevice ==
    /\ MemStart("device", 1..MaxExtra)
    /\ call.fn = "cx_read_mem"
    /\ chip.lose = 0

SpecDevice == InitDevice /\ [][MemRead]_vars

----------------------------------------------------------------------------
(* Claims on one driver call (SpecDriver). *)

\* the transfers of the step
StepLog == SubSeq(bus', Len(bus) + 1, Len(bus'))

\* the transfers since the running driver call was made
CallLog == SubSeq(bus, call.mark + 1, Len(bus))

IsWrite(p) == p.dir = "out" /\ p.cmd = FW_WRITE_MEM

IsRead(p) == p.dir = "out" /\ p.cmd = FW_READ_MEM

\* no bulk transfer among log failed
Delivered(log) == \A k \in 1..Len(log) : log[k].dir # "lost"

\* log is one word read of the flash offset addr and its answer
WordRead(log, addr) ==
    /\ Len(log) = 2
    /\ IsRead(log[1])
    /\ log[1].address = flash_base + addr
    /\ log[1].byte_count = 2
    /\ log[1].access_type = MA_WORD
    /\ log[2].dir = "in"
    /\ log[2].byte_count = 2

\* log is one word write of data at the flash offset addr
WordWrite(p, addr, data) ==
    /\ IsWrite(p)
    /\ p.address = flash_base + addr
    /\ p.byte_count = 2
    /\ p.data = WordBytes(data)

\* the words the answers in log carried
RECURSIVE ValuesRead(_)
ValuesRead(log) ==
    IF log = <<>> THEN <<>>
    ELSE IF Head(log).dir = "in"
    THEN <<BytesWord(Head(log).data, 1)>> \o ValuesRead(Tail(log))
    ELSE ValuesRead(Tail(log))

\* C11: Intel erase-block ends its first step with the erase and
\* erase-confirm writes at the block address; after it, every step while
\* the status read has the ready bit clear is one word read of flash offset
\* 0 and nothing else: no write, no return, the loop goes on; the first
\* status read with the ready bit set ends the loop, and what follows
\* reads no status again: it writes the read-array command and returns.
C11_ErasePollsUntilReady ==
    [][Delivered(StepLog) =>
        /\ pc = "intel_erase_block" =>
            /\ Len(StepLog) = 4
            /\ WordWrite(StepLog[3], call.addr, INTEL_CMD_ERASE)
            /\ WordWrite(StepLog[4], call.addr, INTEL_CMD_ERASECONFIRM)
            /\ pc' = "intel_erase_poll"
        /\ pc = "intel_erase_poll" =>
            /\ WordRead(StepLog, 0)
            /\ call'.fn = call.fn
            /\ ret' = ret
            /\ IF BitAnd(ValuesRead(StepLog)[1], INTEL_ST_READY) = 0
               THEN pc' = "intel_erase_poll"
               ELSE pc' = "intel_erase_end"
        /\ pc = "intel_erase_end" =>
            /\ Len(StepLog) = 1
            /\ WordWrite(StepLog[1], 0, INTEL_CMD_READ)
            /\ pc' = call.cont]_vars

\* an erase whose first status reads found the ready bit clear and whose
\* last one found it set
C11_Witness ==
    /\ pc = "intel_erase_end"
    /\ Delivered(CallLog)
    /\ Len(ValuesRead(CallLog)) = MaxBusy + 1
    /\ \A k \in 1..MaxBusy : BitAnd(ValuesRead(CallLog)[k], INTEL_ST_READY) = 0
    /\ BitAnd(ValuesRead(CallLog)[MaxBusy + 1], INTEL_ST_READY) # 0

\* C12: when a poll read of AMD erase-block at the block address brings a
\* value with the timeout bit set and the data-poll bit clear, the call
\* reads no more: it writes the reset command at flash offset 0 and returns
\* false.
C12_EraseTimeoutResets ==
    [][/\ pc = "amd_erase_poll"
       /\ Delivered(StepLog)
       /\ BitAnd(ValuesRead(StepLog)[1], AMD_ST_TIMEOUT) # 0
       /\ BitAnd(ValuesRead(StepLog)[1], AMD_ST_DATAPOLL) = 0
       => /\ Len(StepLog) = 3
          /\ WordRead(SubSeq(StepLog, 1, 2), call.addr)
          /\ WordWrite(StepLog[3], 0, AMD_CMD_RESET)
          /\ pc' = call.cont
          /\ ret' = FALSE]_vars

\* an AMD erase that has returned after a poll read with the timeout bit
\* set and the data-poll bit clear
C12_Witness ==
    /\ unit = "driver"
    /\ pc = "returned"
    /\ hist.calls[1].fn = "amd_erase_block"
    /\ Delivered(bus)
    /\ ValuesRead(bus) # <<>>
    /\ BitAnd(ValuesRead(bus)[Len(ValuesRead(bus))], AMD_ST_TIMEOUT) # 0
    /\ BitAnd(ValuesRead(bus)[Len(ValuesRead(bus))], AMD_ST_DATAPOLL) = 0
    /\ WordWrite(bus[Len(bus)], 0, AMD_CMD_RESET)
    /\ ret = FALSE

\* C13: a failed bulk transfer during erase-block or program-block is
\* fatal: it is the last transfer of the call, and the call has returned
\* false.
C13_TransportFailureFatal ==
    unit = "driver" =>
        \A k \in 1..Len(bus) :
            bus[k].dir = "lost" =>
                /\ k = Len(bus)
                /\ pc = "returned"
                /\ ret = FALSE

----------------------------------------------------------------------------
(* Claims on one memory access (SpecMem). *)

\* C14: cx_read_mem and cx_write_mem stop at the first bulk transfer that
\* fails: it is the last transfer of the call, none is made again after
\* it, and the call returns its error code.
C14_StopsAtFirstFailure ==
    unit = "mem" /\ pc = "returned" =>
        /\ \A k \in 1..Len(bus) : bus[k].dir = "lost" => k = Len(bus)
        /\ ret = IF Delivered(bus) THEN 0 ELSE chip.err

\* a read of more than one chunk whose first chunk arrived and that
\* returned the error of a failed inbound transfer
C14_Witness ==
    /\ unit = "mem"
    /\ pc = "returned"
    /\ call.fn = "cx_read_mem"
    /\ call.size > PacketDataSize
    /\ Len(bus) > 2
    /\ bus[Len(bus)] = [dir |-> "lost", way |-> "in"]
    /\ Len(buf) < call.size
    /\ ret = chip.err

\* the sum of the byte counts of the packets of log
RECURSIVE ByteCounts(_)
ByteCounts(log) ==
    IF log = <<>> THEN 0 ELSE Head(log).byte_count + ByteCounts(Tail(log))

\* C15: cx_write_mem of count > 0 bytes, no transfer failing, sends
\* ceil(count / 56) write packets and nothing else; packet k (from 0) goes
\* to address + 56 k with the access width of the call, its byte count is
\* min(56, count - 56 k), at most 56, its data are the bytes 56 k up to
\* 56 k + byte count of the input, and the byte counts add up to count.
C15_WriteChunks ==
    unit = "mem" /\ pc = "returned" /\ call.fn = "cx_write_mem"
    /\ Delivered(bus) =>
        /\ Len(bus) = (call.size + PacketDataSize - 1) \div PacketDataSize
        /\ \A k \in 0..(Len(bus) - 1) :
            /\ IsWrite(bus[k + 1])
            /\ bus[k + 1].address = call.addr + PacketDataSize * k
            /\ bus[k + 1].access_type = call.access_type
            /\ bus[k + 1].byte_count =
                    Min(PacketDataSize, call.size - PacketDataSize * k)
            /\ bus[k + 1].byte_count <= PacketDataSize
            /\ bus[k + 1].data =
                    SubSeq(call.data, PacketDataSize * k + 1,
                           PacketDataSize * k + bus[k + 1].byte_count)
        /\ ByteCounts(bus) = call.size

\* a write of MaxChunks full packets and a byte has returned
C15_Witness ==
    /\ unit = "mem"
    /\ pc = "returned"
    /\ call.fn = "cx_write_mem"
    /\ call.size = MaxChunks * PacketDataSize + 1
    /\ Delivered(bus)
    /\ Len(bus) = MaxChunks + 1
    /\ bus[Len(bus)].byte_count = 1
    /\ ret = 0

\* log is made of read requests that ask for an acknowledgment, each
\* followed by inbound packets, and a request follows only when the byte
\* counts received add up to what the request before it asked for (owed is
\* what is still to come); a failed transfer ends the log
RECURSIVE InTurn(_, _)
InTurn(log, owed) ==
    IF log = <<>> THEN TRUE
    ELSE IF Head(log).dir = "lost" THEN Tail(log) = <<>>
    ELSE IF Head(log).dir = "in"
    THEN /\ Head(log).byte_count <= owed
         /\ InTurn(Tail(log), owed - Head(log).byte_count)
    ELSE /\ owed = 0
         /\ IsRead(Head(log))
         /\ Head(log).ack_request = 1
         /\ InTurn(Tail(log), Head(log).byte_count)

\* C16: one request is outstanding at most.  cx_read_mem sets ack_request
\* in every request and sends the next request only after it received
\* inbound packets whose byte counts add up to the chunk it asked for;
\* cx_write_mem clears ack_request and makes no inbound transfer.
C16_RequestResponse ==
    unit = "mem" /\ pc = "returned" =>
        IF call.fn = "cx_read_mem" THEN InTurn(bus, 0)
        ELSE \A k \in 1..Len(bus) :
                \/ IsWrite(bus[k]) /\ bus[k].ack_request = 0
                \/ bus[k] = [dir |-> "lost", way |-> "out"]

\* a read of more than one chunk, each chunk answered in two packets
C16_Witness ==
    /\ unit = "mem"
    /\ pc = "returned"
    /\ call.fn = "cx_read_mem"
    /\ call.size = MaxChunks * PacketDataSize
    /\ chip.piece < PacketDataSize
    /\ Delivered(bus)
    /\ Len(bus) = 3 * MaxChunks
    /\ IsRead(bus[1]) /\ bus[2].dir = "in" /\ bus[3].dir = "in" /\ IsRead(bus[4])
    /\ Len(buf) = call.size

----------------------------------------------------------------------------
(* Claims on whole runs, continued. *)

\* C17: a write or writeslow run whose file holds fewer bytes than the
\* size of the identified chip has ended with exit status 5, with no driver
\* function called and no transfer made since the chip was identified: no
\* unlock, erase, program or lock command went to the flash.
C17_ShortFileStops ==
    /\ args.mode \in {"write", "writeslow"}
    /\ flash # 0
    /\ pc \notin {"main", "identified"}
    /\ Len(file) < flash_size(flash)
    => /\ pc = "exit"
       /\ exitcode = 5
       /\ hist.calls = <<>>
       /\ Len(bus) = hist.idbus

\* a write run on an identified chip that was given a file a byte short
C17_Witness ==
    /\ unit = "main"
    /\ args.mode \in {"write", "writeslow"}
    /\ flash # 0
    /\ Len(file) = flash_size(flash) - 1
    /\ pc = "exit"
    /\ exitcode = 5

\* the transfers of the run: a run that follows another starts at hist.start
RunLog == SubSeq(bus, hist.start + 1, Len(bus))

\* the transfers of the run after flash_identify
AfterIdentify == SubSeq(bus, hist.idbus + 1, Len(bus))

\* the command words that unlock, lock, erase or program
ChangingCmds ==
    {INTEL_CMD_LOCKMODE, INTEL_CMD_LOCK, INTEL_CMD_UNLOCK, INTEL_CMD_ERASE,
     INTEL_CMD_ERASECONFIRM, INTEL_CMD_PROGRAM, AMD_CMD_ERASE_PREPARE,
     AMD_CMD_ERASE_SECTOR, AMD_CMD_UNLOCK_BYPASS, AMD_CMD_PROGRAM}

\* C18: a read run leaves the flash as it was.  After flash_identify it
\* sends read requests only, in words, from flash_base on without a gap,
\* for flash->size bytes in all; no write of the run carries an unlock,
\* lock, erase or program command, and the array and the block locks are
\* those the run found.
C18_ReadRunOnlyReads ==
    unit = "roundtrip" /\ args.mode = "read" /\ pc \in {"close", "done"} =>
        /\ InTurn(AfterIdentify, 0)
        /\ LET reqs == SelectSeq(AfterIdentify, IsRead)
           IN  /\ \A k \in 1..Len(reqs) :
                    /\ reqs[k].access_type = MA_WORD
                    /\ reqs[k].address = flash_base + ByteCounts(SubSeq(reqs, 1, k - 1))
               /\ ByteCounts(reqs) = flash_size(flash)
        /\ \A k \in 1..Len(RunLog) :
                IsWrite(RunLog[k]) /\ InFlash(chip, RunLog[k].address)
                => BytesWord(RunLog[k].data, 1) \notin ChangingCmds
        /\ chip.mem = BytesWords(hist.written)
        /\ chip.kind = "intel" =>
                chip.locked = {chip.geom[k].addr : k \in 1..Len(chip.geom)}

\* a read run of a flash of more than one chunk has filled its buffer
C18_Witness ==
    /\ unit = "roundtrip"
    /\ args.mode = "read"
    /\ pc = "done"
    /\ flash_size(flash) > PacketDataSize
    /\ Len(buf) = flash_size(flash)
    /\ Len(SelectSeq(AfterIdentify, IsRead)) > 1

----------------------------------------------------------------------------
(* Claims on one call of program_block (SpecDriver). *)

\* The program operations in log from position k on, reads and answers
\* left in place: a 4-byte write of the program command cmd and a data
\* word, or a 2-byte write of cmd and the 2-byte write after it.  first and
\* last are the positions of the first and last packet of the operation.
RECURSIVE Programmed(_, _, _)
Programmed(log, k, cmd) ==
    IF k > Len(log) THEN <<>>
    ELSE IF IsWrite(log[k]) /\ log[k].byte_count = 4
            /\ BytesWord(log[k].data, 1) = cmd
    THEN <<[first |-> k, last |-> k, address |-> log[k].address + 2,
            data |-> BytesWord(log[k].data, 3)]>>
         \o Programmed(log, k + 1, cmd)
    ELSE IF IsWrite(log[k]) /\ log[k].byte_count = 2
            /\ BytesWord(log[k].data, 1) = cmd /\ k < Len(log)
    THEN <<[first |-> k, last |-> k + 1, address |-> log[k + 1].address,
            data |-> BytesWord(log[k + 1].data, 1)]>>
         \o Programmed(log, k + 2, cmd)
    ELSE Programmed(log, k + 1, cmd)

\* the call of the run is one of program_block, and no transfer failed
ProgramCall ==
    /\ unit = "driver"
    /\ hist.calls[1].fn \in ProgramBlocks
    /\ Delivered(bus)

\* the program operations of the call so far
CallOps ==
    Programmed(bus, 1, IF hist.calls[1].fn = "intel_program_block"
                       THEN INTEL_CMD_PROGRAM ELSE AMD_CMD_PROGRAM)

\* a poll read at address that brought value shows op completed
Completed(op, address, value) ==
    IF hist.calls[1].fn = "intel_program_block"
    THEN address = flash_base /\ BitAnd(value, INTEL_ST_READY) # 0
    ELSE address = op.address /\ value = op.data

\* C19: in slow mode what program_block does between the write of one word
\* and the program command of the next is reading status: one word read at
\* least, nothing but word reads, and the last of them shows the word
\* completed (Intel: flash offset 0 read with the ready bit set; AMD: the
\* word's address read as the data written).  In fast mode program_block
\* reads nothing.
C19_SlowModeWaits ==
    ProgramCall =>
        IF args.mode = "writeslow"
        THEN \A j \in 1..(Len(CallOps) - 1) :
                LET between == SubSeq(bus, CallOps[j].last + 1,
                                      CallOps[j + 1].first - 1)
                IN  /\ Len(between) >= 2
                    /\ InTurn(between, 0)
                    /\ \A k \in 1..Len(between) :
                            IsRead(between[k]) =>
                                /\ between[k].byte_count = 2
                                /\ between[k].access_type = MA_WORD
                    /\ Completed(CallOps[j],
                                 between[Len(between) - 1].address,
                                 BytesWord(between[Len(between)].data, 1))
        ELSE \A k \in 1..Len(bus) : IsWrite(bus[k])

\* a slow call that has programmed a second word after a poll of the first
\* that found it unfinished and a poll that found it done
C19_Witness ==
    /\ ProgramCall
    /\ args.mode = "writeslow"
    /\ Len(CallOps) >= 2
    /\ CallOps[2].first - CallOps[1].last > 4

\* the words read between program operation j of ops and the next one, or
\* the end of the log
PollValues(ops, j) ==
    ValuesRead(SubSeq(bus, ops[j].last + 1,
                      IF j < Len(ops) THEN ops[j + 1].first - 1 ELSE Len(bus)))

\* value, read in the poll of op, shows an error
PollError(op, value) ==
    IF hist.calls[1].fn = "intel_program_block"
    THEN BitAnd(value, INTEL_ST_READY) # 0
         /\ BitAnd(value, INTEL_ST_ERROR_MASK) # 0
    ELSE value # op.data /\ BitAnd(value, AMD_ST_TIMEOUT) # 0

\* value, read in the poll of op, shows the word programmed
PollSuccess(op, value) ==
    IF hist.calls[1].fn = "intel_program_block"
    THEN BitAnd(value, INTEL_ST_READY) # 0
         /\ BitAnd(value, INTEL_ST_ERROR_MASK) = 0
    ELSE value = op.data

\* C20: in slow mode program_block returns true only when the last poll of
\* every word it programmed showed success (Intel: ready and no bit of the
\* error mask; AMD: the word read back equal to the data).  A poll that
\* shows an error (Intel: ready with a bit of the error mask; AMD: a value
\* other than the data with the timeout bit set) is the last read of the
\* call: the call has returned false and programmed no word after it.
C20_SlowModeReports ==
    ProgramCall /\ args.mode = "writeslow" =>
        /\ pc = "returned" /\ ret = TRUE =>
            \A j \in 1..Len(CallOps) :
                /\ PollValues(CallOps, j) # <<>>
                /\ PollSuccess(CallOps[j],
                        PollValues(CallOps, j)[Len(PollValues(CallOps, j))])
        /\ \A j \in 1..Len(CallOps) :
            \A k \in 1..Len(PollValues(CallOps, j)) :
                PollError(CallOps[j], PollValues(CallOps, j)[k]) =>
                    /\ j = Len(CallOps)
                    /\ k = Len(PollValues(CallOps, j))
                    /\ pc = "returned"
                    /\ ret = FALSE

\* a slow call that returned false at its second word, the poll of the
\* first having shown success
C20_Witness ==
    /\ ProgramCall
    /\ args.mode = "writeslow"
    /\ pc = "returned"
    /\ ret = FALSE
    /\ Len(CallOps) = 2
    /\ PollSuccess(CallOps[1],
            PollValues(CallOps, 1)[Len(PollValues(CallOps, 1))])
    /\ PollError(CallOps[2],
            PollValues(CallOps, 2)[Len(PollValues(CallOps, 2))])

\* the packets of bus that write at the flash offset of word i of the
\* block of the call, as a data word: a 2-byte write there, or a 4-byte
\* write one word below
WritesOfWord(i) ==
    {k \in 1..Len(bus) :
        /\ IsWrite(bus[k])
        /\ \/ /\ bus[k].byte_count = 4
              /\ bus[k].address + 2 = flash_base + hist.calls[1].addr + 2 * i
           \/ /\ bus[k].byte_count = 2
              /\ bus[k].address = flash_base + hist.calls[1].addr + 2 * i
              /\ k > 1
              /\ BytesWord(bus[k - 1].data, 1) \in {INTEL_CMD_PROGRAM, AMD_CMD_PROGRAM}
              /\ bus[k - 1].byte_count = 2}

\* C21: a word of index i >= 1 that program_block has programmed, be it
\* the first one programmed of its block or not, went out in one packet: a
\* 4-byte write in words at flash_base + A + 2 i - 2, the address of word
\* i - 1 and so never below the block, that holds the program command of
\* the family and then the data word.  When the call has returned true
\* every word of index i >= 1 other than 0xFFFF has gone out so.
C21_MergedWordWrite ==
    ProgramCall =>
        /\ \A j \in 1..Len(CallOps) :
            CallOps[j].address # flash_base + hist.calls[1].addr =>
                LET i == (CallOps[j].address - flash_base - hist.calls[1].addr) \div 2
                    p == bus[CallOps[j].first]
                IN  /\ i >= 1
                    /\ i < hist.calls[1].size \div 2
                    /\ CallOps[j].first = CallOps[j].last
                    /\ p.byte_count = 4
                    /\ p.access_type = MA_WORD
                    /\ p.address = flash_base + hist.calls[1].addr + 2 * i - 2
                    /\ p.address >= flash_base + hist.calls[1].addr
                    /\ p.data = WordBytes(IF chip.kind = "intel"
                                          THEN INTEL_CMD_PROGRAM
                                          ELSE AMD_CMD_PROGRAM)
                                \o WordBytes(hist.calls[1].data[i + 1])
                    /\ WritesOfWord(i) = {CallOps[j].first}
        /\ pc = "returned" /\ ret = TRUE =>
            \A i \in 1..(hist.calls[1].size \div 2 - 1) :
                hist.calls[1].data[i + 1] # ERASED =>
                    \E j \in 1..Len(CallOps) :
                        CallOps[j].address =
                            flash_base + hist.calls[1].addr + 2 * i

\* a call that returned true on a block whose word 0 is 0xFFFF and whose
\* word 1 is not: the first word programmed has index 1
C21_Witness ==
    /\ ProgramCall
    /\ pc = "returned"
    /\ ret = TRUE
    /\ hist.calls[1].size >= 4
    /\ hist.calls[1].data[1] = ERASED
    /\ hist.calls[1].data[2] # ERASED
    /\ Len(CallOps) >= 1
    /\ CallOps[1].address = flash_base + hist.calls[1].addr + 2

----------------------------------------------------------------------------
(* Claims on flash_identify and on the start of main. *)

\* the nine transfers of flash_identify, when it has just returned
IdentifyLog == SubSeq(bus, hist.idbus - 8, hist.idbus)

\* C22: flash_identify sends the read-identifier command 0x90 (after its
\* two unlock cycles), reads a word at flash offset 0 and a word at flash
\* offset 2, then writes the Intel read-array command 0xFF and the AMD
\* reset command 0xF0 at offset 0.  It does so for every pair of IDs, in
\* the catalog or not, and the two writes are out when the result of the
\* lookup is returned: the IDs looked up are the two words read.
C22_IdentifyOrder ==
    pc = "identified" =>
        /\ hist.idbus = Len(bus)
        /\ hist.idbus >= 9
        /\ WordWrite(IdentifyLog[1], UNLOCK_ADDR1, UNLOCK_DATA1)
        /\ WordWrite(IdentifyLog[2], UNLOCK_ADDR2, UNLOCK_DATA2)
        /\ WordWrite(IdentifyLog[3], UNLOCK_ADDR1, FLASH_CMD_ID)
        /\ WordRead(SubSeq(IdentifyLog, 4, 5), 0)
        /\ WordRead(SubSeq(IdentifyLog, 6, 7), 2)
        /\ WordWrite(IdentifyLog[8], 0, INTEL_CMD_READ)
        /\ WordWrite(IdentifyLog[9], 0, AMD_CMD_RESET)
        /\ hist.ids = ValuesRead(IdentifyLog)
        /\ flash = ChipLookup(1, hist.ids[1], hist.ids[2])

\* flash_identify has returned NULL for the IDs of a chip that the catalog
\* does not hold
C22_Witness ==
    /\ pc = "identified"
    /\ flash = 0
    /\ hist.ids = chip.ids
    /\ WordWrite(bus[Len(bus)], 0, AMD_CMD_RESET)

----------------------------------------------------------------------------
(* Claims on the command sequences of the drivers (SpecDriver). *)

\* the call of the run is one of fn, and no transfer failed
CallOf(fn) ==
    /\ unit = "driver"
    /\ hist.calls[1].fn = fn
    /\ Delivered(bus)

\* the write packets of the run
Written == SelectSeq(bus, IsWrite)

\* C23: amd_erase_block of the block at flash offset A writes, in words
\* and in this order, 0xAA at 0xAAA, 0x55 at 0x554, 0x80 at 0xAAA, 0xAA at
\* 0xAAA, 0x55 at 0x554 and 0x30 at A, and nothing else but the reset
\* command of a timeout; every read after them is a word read of A.
C23_AmdEraseSequence ==
    CallOf("amd_erase_block") /\ pc # "amd_erase_block" =>
        /\ Len(bus) >= 6
        /\ WordWrite(bus[1], UNLOCK_ADDR1, UNLOCK_DATA1)
        /\ WordWrite(bus[2], UNLOCK_ADDR2, UNLOCK_DATA2)
        /\ WordWrite(bus[3], UNLOCK_ADDR1, AMD_CMD_ERASE_PREPARE)
        /\ WordWrite(bus[4], UNLOCK_ADDR1, UNLOCK_DATA1)
        /\ WordWrite(bus[5], UNLOCK_ADDR2, UNLOCK_DATA2)
        /\ WordWrite(bus[6], hist.calls[1].addr, AMD_CMD_ERASE_SECTOR)
        /\ \A k \in 1..6 : bus[k].access_type = MA_WORD
        /\ Len(Written) = IF pc = "returned" /\ ret = FALSE THEN 7 ELSE 6
        /\ InTurn(SubSeq(bus, 7, Len(bus) - (Len(Written) - 6)), 0)
        /\ \A k \in 7..Len(bus) :
            IsRead(bus[k]) =>
                /\ bus[k].address = flash_base + hist.calls[1].addr
                /\ bus[k].byte_count = 2
                /\ bus[k].access_type = MA_WORD

\* an erase of a block that is not the first one has returned true after
\* more than one poll read
C23_Witness ==
    /\ CallOf("amd_erase_block")
    /\ pc = "returned"
    /\ ret = TRUE
    /\ hist.calls[1].addr > 0
    /\ Len(ValuesRead(bus)) > 1

\* the last n packets of bus are word writes of the words of cmds at flash
\* offset 0, and they come after every program operation
ExitSequence(cmds) ==
    /\ Len(bus) >= Len(cmds)
    /\ \A k \in 1..Len(cmds) :
            WordWrite(bus[Len(bus) - Len(cmds) + k], 0, cmds[k])
    /\ \A j \in 1..Len(CallOps) : CallOps[j].last <= Len(bus) - Len(cmds)

\* C24: when program_block has returned, true or (in slow mode) false, the
\* last thing it wrote, after its last program operation, is the exit
\* sequence of the family: Intel the read-array command 0xFF at flash
\* offset 0; AMD the bypass reset 0x90, 0x00 at flash offset 0, followed by
\* the reset 0xF0 when it returns false.
C24_ProgramExitSequence ==
    ProgramCall /\ pc = "returned" =>
        IF hist.calls[1].fn = "intel_program_block"
        THEN ExitSequence(<<INTEL_CMD_READ>>)
        ELSE IF ret
        THEN ExitSequence(<<AMD_CMD_BYPASS_RESET1, AMD_CMD_BYPASS_RESET2>>)
        ELSE ExitSequence(<<AMD_CMD_BYPASS_RESET1, AMD_CMD_BYPASS_RESET2,
                            AMD_CMD_RESET>>)

\* a slow AMD call that returned false after it programmed a word
C24_Witness ==
    /\ ProgramCall
    /\ hist.calls[1].fn = "amd_program_block"
    /\ pc = "returned"
    /\ ret = FALSE
    /\ Len(CallOps) >= 1
    /\ WordWrite(bus[Len(bus)], 0, AMD_CMD_RESET)

----------------------------------------------------------------------------
(* Claims on the block loop of main. *)

\* log is what set_block_lock of the chip writes for the block at addr:
\* the lock-mode command and then cmd, or nothing when the chip has no
\* such function
LockWrites(log, addr, cmd) ==
    IF supported_chips[flash].set_block_lock = "NULL" THEN log = <<>>
    ELSE /\ Len(log) = 2
         /\ WordWrite(log[1], addr, INTEL_CMD_LOCKMODE)
         /\ WordWrite(log[2], addr, cmd)

\* C25: main takes each block through unlock, erase, program and lock in
\* this order, the block address staying the same from the unlock to the
\* lock.  With a set_block_lock function (Intel) the unlock is the writes
\* 0x60, 0xD0 and the lock the writes 0x60, 0x01 at the block address;
\* without one (MXIC/AMD) main writes nothing around erase and program.
\* No other step of the run writes the lock-mode command 0x60.
C25_UnlockEraseProgramLock ==
    [][/\ pc = "block" =>
            /\ LockWrites(StepLog, loop.addr, INTEL_CMD_UNLOCK)
            /\ pc' = supported_chips[flash].erase_block
            /\ call'.addr = loop.addr /\ call'.cont = "program"
            /\ loop' = loop
       /\ pc = "program" =>
            /\ StepLog = <<>>
            /\ pc' = supported_chips[flash].program_block
            /\ call'.addr = loop.addr /\ call'.cont = "lock"
            /\ loop' = loop
       /\ pc = "lock" =>
            /\ LockWrites(StepLog, loop.addr, INTEL_CMD_LOCK)
            /\ pc' = "loop"
            /\ loop'.addr = loop.addr + BlockSize(flash, loop.i)
       /\ call.fn # "none" =>
            /\ loop' = loop
            /\ call.addr = loop.addr
            /\ pc' = call.cont \/ call'.fn = call.fn
       /\ pc \notin {"block", "lock"} =>
            \A k \in 1..Len(StepLog) :
                ~(IsWrite(StepLog[k]) /\ StepLog[k].byte_count = 2
                  /\ StepLog[k].data = WordBytes(INTEL_CMD_LOCKMODE))]_vars

\* an Intel write run that has locked its last block
C25_Witness ==
    /\ unit = "main"
    /\ pc = "close"
    /\ args.mode \in {"write", "writeslow"}
    /\ supported_chips[flash].set_block_lock # "NULL"
    /\ Len(hist.calls) > 2
    /\ WordWrite(bus[Len(bus)], hist.calls[Len(hist.calls)].addr, INTEL_CMD_LOCK)
    /\ WordWrite(bus[Len(bus) - 1], hist.calls[Len(hist.calls)].addr,
                 INTEL_CMD_LOCKMODE)

----------------------------------------------------------------------------
(* Claims on cx_read_mem and a device that answers as it likes             *)
(* (SpecDevice).                                                           *)

\* C26: whatever the answer packets say, cx_read_mem copies count bytes at
\* most to the buffer of its caller, and for each request the bytes of the
\* chunk asked for at most: it takes no answer for more than is still to
\* come of the chunk.
C26_ReadWithinCount ==
    unit = "device" /\ pc = "returned" =>
        /\ Len(buf) <= call.size
        /\ InTurn(bus, 0)

\* p is the write that enables the flash of the CX861xx
EnableWrite(p) ==
    /\ IsWrite(p)
    /\ p.address = CX861XX_FLASH_ENABLE
    /\ p.byte_count = 1
    /\ p.data = <<1>>
    /\ p.access_type = MA_BYTE

\* C27: when a packet has been sent flash_base is the flash address of the
\* family found, 0x04000000 for the CX861xx and 0x00400000 for the
\* CX82xxx.  On the CX861xx the first packet is the write of the byte 1 at
\* 0x00600004, and every other request addresses the flash window, the
\* reset commands and flash_identify included; on the CX82xxx no packet
\* goes to 0x00600004.
C27_FlashEnabledFirst ==
    bus # <<>> =>
        /\ flash_base = BaseOf(usb.product)
        /\ cx861xx = (usb.product = CX861XX_BOOT_PROD)
        /\ cx861xx => EnableWrite(bus[1])
        /\ \A k \in (IF cx861xx THEN 2 ELSE 1)..Len(bus) :
            bus[k].dir = "out" =>
                /\ bus[k].address # CX861XX_FLASH_ENABLE
                /\ flash_base <= bus[k].address
                /\ bus[k].address < flash_base + FlashWindow

\* main on a CX861xx has sent the enable write and the two reset commands
C27_Witness ==
    /\ unit = "main"
    /\ pc = "flash_identify"
    /\ usb.product = CX861XX_BOOT_PROD
    /\ flash_base = CX861XX_FLASH_BASE
    /\ Len(bus) = 3
    /\ EnableWrite(bus[1])
    /\ WordWrite(bus[2], 0, INTEL_CMD_READ)

----------------------------------------------------------------------------
(* A fast-mode write run on a chip that completes its erases                *)
(*                                                                          *)
(* The program is one sequential process: once started it runs its next     *)
(* statement whenever there is one, which is weak fairness of the run's     *)
(* steps.  The chip may answer a status read with "still running" MaxOdd    *)
(* times and then reports completion; an Intel erase may end with its error *)
(* bits set next to the ready bit, an AMD erase ends with data-poll set.    *)

LiveFaults(kind) ==
    IF kind = "intel" THEN RunFaults(kind)
    ELSE [erase |-> {}, program |-> {}]

InitLive ==
    /\ pc = "main"
    /\ unit = "main"
    /\ args = [argc |-> 3, mode |-> "write"]
    /\ flash_base = 0
    /\ cx861xx = FALSE
    /\ flash = 0
    /\ file = <<>>
    /\ buf = <<>>
    /\ loop = [i |-> 0, j |-> 0, addr |-> 0]
    /\ call = NoCall
    /\ ret = TRUE
    /\ exitcode = -1
    /\ bus = <<>>
    /\ \E b \in Boards :
        /\ usb = [product |-> b.product, claim |-> 0]
        /\ chip = PowerOn(b, BaseOf(b.product), MaxOdd, LiveFaults(b.kind))
    /\ hist = NoHist

\* the statements a fast-mode write run goes through
NextLive ==
    \/ MainStart
    \/ FlashIdentify
    \/ MainOpenFile
    \/ MainLoop
    \/ MainUnlock
    \/ IntelEraseStart
    \/ IntelErasePoll
    \/ IntelEraseEnd
    \/ AmdEraseStart
    \/ AmdErasePoll
    \/ MainProgram
    \/ IntelProgramStart
    \/ IntelProgramWord
    \/ IntelProgramEnd
    \/ AmdProgramStart
    \/ AmdProgramWord
    \/ AmdProgramEnd
    \/ MainLock
    \/ MainClose

SpecLive == InitLive /\ [][NextLive]_vars /\ WF_vars(NextLive)

\* the write run is through: every block of the descriptor has had its one
\* erase_block and its one program_block, and main has returned 0
WriteDone ==
    /\ pc = "done"
    /\ exitcode = 0
    /\ flash # 0
    /\ Len(CallsOf({"intel_erase_block", "amd_erase_block"}))
        = Len(BlockStarts(flash_blocks(flash), 0))
    /\ Len(CallsOf(ProgramBlocks)) = Len(BlockStarts(flash_blocks(flash), 0))
    /\ Visits(BlockStarts(flash_blocks(flash), 0),
              CallsOf({"intel_erase_block", "amd_erase_block"}),
              CallsOf(ProgramBlocks))

\* C28: with transfers that never fail, answers of the full byte count and
\* a chip that reports completion after every erase (Intel: ready bit,
\* AMD: data-poll bit), a fast-mode write run that has entered its block
\* loop terminates: it reaches its normal end, and every block of the
\* selected descriptor has then been erased once and programmed once.
C28_WriteRunTerminates ==
    (pc = "loop" /\ args.mode = "write" /\ hist.calls = <<>>) ~> WriteDone

\* a finished fast write run of at least two blocks in which a status read
\* found an erase still running and no driver call failed
C28_Witness ==
    /\ WriteDone
    /\ args.mode = "write"
    /\ chip.odd = 0
    /\ hist.failed = "none"
    /\ Len(CallsOf(ProgramBlocks)) >= 2

====
